---- MODULE Spec2Model ----
(***************************************************************************)
(* Model of the SwiftLight repair scripts (src/*.py, src/fix_scripts/*.py) *)
(* as runs over a small file system.  A file is a sequence of characters;  *)
(* a run is one execution of one script, stepping from one file operation  *)
(* to the next.                                                            *)
(***************************************************************************)
EXTENDS Integers, Sequences, FiniteSets, TLC

VARIABLES
    fs,        \* the file system: a function from the existing paths to their text
    script,    \* the script being run ("none" before the first run)
    pc,        \* the position of the run in its script
    runs,      \* number of runs started so far
    target_file, \* the script's variable `target_file` ("none" when it has none)
    content,   \* the script's variable `content` (text read from the target)
    lines,     \* the script's variable `lines`
    stack,     \* check_brackets: the stack of open braces, pairs <<line, col>>
    problems,  \* check_brackets: the list of reported problems
    fs0,       \* history: the file system as it was when the run started
    io,        \* history: the writes of the current run, in order
    all_files, \* fix_ast: the list `all_files` that glob returned
    file_index, \* fix_ast: the position in all_files of the loop variable `file_path`
    original_content, \* fix_ast: the script's variable `original_content`
    rule,      \* fix_ast, fix_inkwell2: the position in the rule list of the loop variables
    changes_made, \* fix_optimization_trait: the script's variable `changes_made`
    parked     \* the variables of the other process, while this one is running

vars == <<fs, script, pc, runs, target_file, content, lines, stack, problems, fs0, io,
          all_files, file_index, original_content, rule, changes_made, parked>>

----------------------------------------------------------------------------
(* Bounds of the model *)

MaxFrags == 3      \* an initial text is the concatenation of at most MaxFrags fragments
MaxTail == 2       \* fragments that follow the padding of a long initial text
MaxRuns == 2       \* number of script runs in one behaviour
MaxCalls == 2      \* fragments in mod.rs and codegen.rs together, where calls are rewritten
MaxAst == 2        \* fragments in the files fix_ast rewrites, together

----------------------------------------------------------------------------
(* Characters and strings.  A text is a sequence of characters; ImplHdr    *)
(* stands for the header text "impl<'ctx> IRGenerator<'ctx> " as one unit. *)

NL == "\n"
ImplHdr == "impl<'ctx> IRGenerator<'ctx> "

Min(S) == CHOOSE x \in S : \A y \in S : x <= y
Max(S) == CHOOSE x \in S : \A y \in S : x >= y

\* n copies of s
Repeat(s, n) == [i \in 1..(n * Len(s)) |-> s[((i - 1) % Len(s)) + 1]]

\* str.count(c) for a one-character c
Count(c, s) == Cardinality({i \in 1..Len(s) : s[i] = c})

StartsWith(s, p) == Len(s) >= Len(p) /\ SubSeq(s, 1, Len(p)) = p
EndsWith(s, p) == Len(s) >= Len(p) /\ SubSeq(s, Len(s) - Len(p) + 1, Len(s)) = p

\* the positions at which p occurs in s
Occurrences(s, p) == {i \in 1..(Len(s) - Len(p) + 1) : SubSeq(s, i, i + Len(p) - 1) = p}
Contains(s, p) == Occurrences(s, p) # {}

IsSpace(c) == c \in {" ", NL}

\* str.strip(), str.lstrip()
Strip(s) ==
    LET keep == {i \in 1..Len(s) : ~IsSpace(s[i])}
    IN  IF keep = {} THEN <<>> ELSE SubSeq(s, Min(keep), Max(keep))

\* str.split("\n"): always at least one piece.  The text is split in halves
\* and the pieces on both sides of the cut are glued, to keep the recursion flat.
RECURSIVE SplitNL(_)
SplitNL(s) ==
    IF Len(s) = 0 THEN <<s>>
    ELSE IF Len(s) = 1 THEN (IF s[1] = NL THEN << <<>>, <<>> >> ELSE <<s>>)
    ELSE LET mid == Len(s) \div 2
             a == SplitNL(SubSeq(s, 1, mid))
             b == SplitNL(SubSeq(s, mid + 1, Len(s)))
         IN  SubSeq(a, 1, Len(a) - 1) \o <<a[Len(a)] \o b[1]>> \o Tail(b)

\* sep.join(ls[lo..hi])
RECURSIVE JoinRange(_, _, _, _)
JoinRange(ls, sep, lo, hi) ==
    IF lo > hi THEN <<>>
    ELSE IF lo = hi THEN ls[lo]
    ELSE LET mid == (lo + hi) \div 2
         IN  JoinRange(ls, sep, lo, mid) \o sep \o JoinRange(ls, sep, mid + 1, hi)

\* "\n".join(ls)
JoinNL(ls) == JoinRange(ls, <<NL>>, 1, Len(ls))

\* str.replace(old, new): every occurrence, leftmost first, not overlapping
RECURSIVE Replace(_, _, _)
Replace(s, old, new) ==
    LET occ == Occurrences(s, old)
    IN  IF occ = {} THEN s
        ELSE LET k == Min(occ)
             IN  SubSeq(s, 1, k - 1) \o new
                   \o Replace(SubSeq(s, k + Len(old), Len(s)), old, new)

----------------------------------------------------------------------------
(* Regular expressions (Python's re) over texts.  A pattern is a sequence  *)
(* of elements: a literal, a character class repeated (+ or *, greedy), an *)
(* optional group of the n elements that follow it, and the parentheses of *)
(* a capturing group.  Matching backtracks in Python's order, so the first *)
(* match found is the one re finds.                                        *)

Lit(t) == [k |-> "lit", t |-> t]
Plus(c) == [k |-> "plus", c |-> c]
Star(c) == [k |-> "star", c |-> c]
Opt(n) == [k |-> "opt", n |-> n]
Open == [k |-> "open"]
Close == [k |-> "close"]

Digits == {"0"}

InClass(c, tok) ==
    CASE c = "space" -> IsSpace(tok)                \* \s
      [] c = "digit" -> tok \in Digits              \* [0-9]
      [] c = "notcomma" -> tok # ","                \* [^,]
      [] c = "notcommaparen" -> tok \notin {",", ")"}   \* [^,\)]
      [] c = "notcommanl" -> tok \notin {",", NL, "\r"}   \* [^,\n\r]
      [] c = "notparen" -> tok # ")"                \* [^)]
      [] c = "notquote" -> tok # "\""               \* [^"]
      [] c = "notparennl" -> tok \notin {")", NL}   \* . up to the first ")"

\* the length of the longest run of class c that starts at pos
RunLen(c, s, pos) ==
    LET stops == {i \in pos..Len(s) : ~InClass(c, s[i])}
    IN  IF stops = {} THEN Len(s) - pos + 1 ELSE Min(stops) - pos

NoMatch == [ok |-> FALSE, end |-> 0, caps |-> <<>>]

\* the match of the elements k.. of pat at pos; caps are the positions at
\* which the group parentheses passed so far were met
RECURSIVE MatchAt(_, _, _, _, _)
RECURSIVE TryRuns(_, _, _, _, _, _, _)
MatchAt(pat, k, s, pos, caps) ==
    IF k > Len(pat) THEN [ok |-> TRUE, end |-> pos, caps |-> caps]
    ELSE CASE pat[k].k = "lit" ->
                 IF pos <= Len(s) /\ s[pos] = pat[k].t
                 THEN MatchAt(pat, k + 1, s, pos + 1, caps) ELSE NoMatch
           [] pat[k].k \in {"open", "close"} -> MatchAt(pat, k + 1, s, pos, Append(caps, pos))
           [] pat[k].k = "plus" -> TryRuns(pat, k, s, pos, caps, RunLen(pat[k].c, s, pos), 1)
           [] pat[k].k = "star" -> TryRuns(pat, k, s, pos, caps, RunLen(pat[k].c, s, pos), 0)
           [] pat[k].k = "opt" ->
                 LET r == MatchAt(pat, k + 1, s, pos, caps)
                 IN  IF r.ok THEN r ELSE MatchAt(pat, k + 1 + pat[k].n, s, pos, caps)

\* greedy repetition: the longest run first, then shorter ones
TryRuns(pat, k, s, pos, caps, n, least) ==
    IF n < least THEN NoMatch
    ELSE LET r == MatchAt(pat, k + 1, s, pos + n, caps)
         IN  IF r.ok THEN r ELSE TryRuns(pat, k, s, pos, caps, n - 1, least)

\* re.search(pat, s) is not None
Search(pat, s) == \E pos \in 1..(Len(s) + 1) : MatchAt(pat, 1, s, pos, <<>>).ok

Group(g) == [g |-> g, t |-> ""]
Text(t) == [g |-> 0, t |-> t]

\* the replacement text of a match: \g is the text of group g
RECURSIVE Expand(_, _, _)
Expand(tmpl, s, caps) ==
    IF tmpl = <<>> THEN <<>>
    ELSE (IF Head(tmpl).g = 0 THEN <<Head(tmpl).t>>
          ELSE SubSeq(s, caps[2 * Head(tmpl).g - 1], caps[2 * Head(tmpl).g] - 1))
           \o Expand(Tail(tmpl), s, caps)

\* re.sub(pat, tmpl, s): every match, leftmost first, not overlapping
RECURSIVE SubFrom(_, _, _, _)
SubFrom(pat, tmpl, s, from) ==
    LET starts == {p \in from..Len(s) : MatchAt(pat, 1, s, p, <<>>).ok}
    IN  IF starts = {} THEN SubSeq(s, from, Len(s))
        ELSE LET p == Min(starts)
                 r == MatchAt(pat, 1, s, p, <<>>)
             IN  SubSeq(s, from, p - 1) \o Expand(tmpl, s, r.caps)
                   \o SubFrom(pat, tmpl, s, r.end)
Sub(pat, tmpl, s) == SubFrom(pat, tmpl, s, 1)

----------------------------------------------------------------------------
(* The file system *)

ModRs == "crates/swiftlight-compiler/src/middleend/ir/mod.rs"
ImplBak == "crates/backups/manual/mod.rs.impl.bak"

\* open(p, "w") and write: the file is created or replaced
WriteFile(f, p, text) == [q \in DOMAIN f \cup {p} |-> IF q = p THEN text ELSE f[q]]

Logged(p, text) == Append(io, [path |-> p, data |-> text])

----------------------------------------------------------------------------
(* fix_scripts/fix_impl_brackets.py *)

LastPartLines == 1000
Indented == <<" ", " ", " ", " ", "}">>

\* (a loop that stops one short)
AppendClosersOneShort(text, diff) == text \o Repeat(<<NL, "}">>, diff - 1)

\* lines 33-35: diff times "\n}" at the end of the file
AppendClosers(text, diff) == text \o Repeat(<<NL, "}">>, diff)

\* lines 45-48: walking backward, blank the lines that hold only a closing brace
\* (lines 46-48 for one i; st is the pair of lines and removed)
StripLine(st, i, diff) ==
    IF Strip(st.lines[i]) = <<"}">> /\ st.removed < diff
    THEN [lines |-> [st.lines EXCEPT ![i] = <<>>], removed |-> st.removed + 1]
    ELSE st

\* for i in range(hi, lo - 1, -1), the range halved to keep the recursion flat
RECURSIVE StripLoop(_, _, _, _)
StripLoop(st, lo, hi, diff) ==
    IF lo > hi THEN st
    ELSE IF lo = hi THEN StripLine(st, lo, diff)
    ELSE LET mid == (lo + hi) \div 2
             t == StripLoop(st, mid + 1, hi, diff)
         IN  IF t.removed >= 0    \* t is computed before going on
             THEN StripLoop(t, lo, mid, diff) ELSE t

\* lines 43-52
StripClosers(text, diff) ==
    LET ls == SplitNL(text)
    IN  JoinNL(StripLoop([lines |-> ls, removed |-> 0], 1, Len(ls), diff).lines)

\* lines 60-65: re.search(r"impl<'ctx> IRGenerator<'ctx> \{(.*?)\n\}", last_part, re.DOTALL)
ImplMatch(text) ==
    LET ls == SplitNL(text)
        last_part == JoinNL(SubSeq(ls, Max({1, Len(ls) - LastPartLines + 1}), Len(ls)))
    IN  \E i \in Occurrences(last_part, <<ImplHdr, "{">>) :
            \E j \in Occurrences(last_part, <<NL, "}">>) : j >= i + 2

\* line 69
FixIndent(text) == Replace(text, Indented, <<"}">>)

FIB_Backup ==
    /\ pc = "fib_backup"
    /\ fs' = WriteFile(fs, ImplBak, fs[ModRs])
    /\ io' = Logged(ImplBak, fs[ModRs])
    /\ pc' = "fib_read"
    /\ UNCHANGED <<all_files, file_index, original_content, rule, parked, changes_made, script, runs, target_file, content, lines, stack, problems, fs0>>

FIB_Read ==
    /\ pc = "fib_read"
    /\ content' = fs[ModRs]
    /\ pc' = "fib_fix"
    /\ UNCHANGED <<all_files, file_index, original_content, rule, parked, changes_made, fs, script, runs, target_file, lines, stack, problems, fs0, io>>

\* (the second test written as `if`: its else branch runs after the append)
FIB_AppendThenElse ==
    /\ pc = "fib_fix"
    /\ Count("{", content) > Count("}", content)
    /\ LET diff == Count("{", content) - Count("}", content)
           appended == AppendClosers(fs[ModRs], diff)
       IN  IF ImplMatch(content)
           THEN /\ fs' = WriteFile(fs, ModRs, FixIndent(content))
                /\ io' = Append(Logged(ModRs, appended), [path |-> ModRs, data |-> FixIndent(content)])
           ELSE /\ fs' = WriteFile(fs, ModRs, appended)
                /\ io' = Logged(ModRs, appended)
    /\ pc' = "done"
    /\ UNCHANGED <<all_files, file_index, original_content, rule, parked, changes_made, script, runs, target_file, content, lines, stack, problems, fs0>>

\* lines 28-37
FIB_Append ==
    /\ pc = "fib_fix"
    /\ Count("{", content) > Count("}", content)
    /\ LET diff == Count("{", content) - Count("}", content)
       IN  /\ fs' = WriteFile(fs, ModRs, AppendClosers(fs[ModRs], diff))
           /\ io' = Logged(ModRs, AppendClosers(fs[ModRs], diff))
    /\ pc' = "done"
    /\ UNCHANGED <<all_files, file_index, original_content, rule, parked, changes_made, script, runs, target_file, content, lines, stack, problems, fs0>>

\* lines 38-54
FIB_Strip ==
    /\ pc = "fib_fix"
    /\ Count("}", content) > Count("{", content)
    /\ LET diff == Count("}", content) - Count("{", content)
       IN  /\ fs' = WriteFile(fs, ModRs, StripClosers(content, diff))
           /\ io' = Logged(ModRs, StripClosers(content, diff))
           /\ lines' = SplitNL(StripClosers(content, diff))
    /\ pc' = "done"
    /\ UNCHANGED <<all_files, file_index, original_content, rule, parked, changes_made, script, runs, target_file, content, stack, problems, fs0>>

\* lines 55-72
FIB_Indent ==
    /\ pc = "fib_fix"
    /\ Count("}", content) = Count("{", content)
    /\ ImplMatch(content)
    /\ fs' = WriteFile(fs, ModRs, FixIndent(content))
    /\ io' = Logged(ModRs, FixIndent(content))
    /\ lines' = SplitNL(content)
    /\ pc' = "done"
    /\ UNCHANGED <<all_files, file_index, original_content, rule, parked, changes_made, script, runs, target_file, content, stack, problems, fs0>>

\* lines 55-66, 73-74
FIB_Manual ==
    /\ pc = "fib_fix"
    /\ Count("}", content) = Count("{", content)
    /\ ~ImplMatch(content)
    /\ lines' = SplitNL(content)
    /\ pc' = "done"
    /\ UNCHANGED <<all_files, file_index, original_content, rule, parked, changes_made, fs, script, runs, target_file, content, stack, problems, fs0, io>>

----------------------------------------------------------------------------
(* fix_missing_brackets.py *)

BracketsBak == "crates/swiftlight-compiler/src/middleend/ir/mod.rs.brackets-bak"

CloserLine(indent) == <<NL>> \o Repeat(<<" ">>, indent) \o <<"}">>

\* lines 20-28
ClosingBrackets ==
    CloserLine(28) \o CloserLine(24) \o CloserLine(20) \o CloserLine(16)
      \o CloserLine(12) \o CloserLine(8) \o CloserLine(4) \o CloserLine(0)

\* line 18
ProperlyClosed(text) == EndsWith(Strip(text), <<"}">>)

FMB_Backup ==
    /\ pc = "fmb_backup"
    /\ fs' = WriteFile(fs, BracketsBak, fs[ModRs])
    /\ io' = Logged(BracketsBak, fs[ModRs])
    /\ pc' = "fmb_read"
    /\ UNCHANGED <<all_files, file_index, original_content, rule, parked, changes_made, script, runs, target_file, content, lines, stack, problems, fs0>>

FMB_Read ==
    /\ pc = "fmb_read"
    /\ content' = fs[ModRs]
    /\ pc' = "fmb_fix"
    /\ UNCHANGED <<all_files, file_index, original_content, rule, parked, changes_made, fs, script, runs, target_file, lines, stack, problems, fs0, io>>

\* lines 18-34
FMB_Append ==
    /\ pc = "fmb_fix"
    /\ ~ProperlyClosed(content)
    /\ fs' = WriteFile(fs, ModRs, content \o ClosingBrackets)
    /\ io' = Logged(ModRs, content \o ClosingBrackets)
    /\ pc' = "done"
    /\ UNCHANGED <<all_files, file_index, original_content, rule, parked, changes_made, script, runs, target_file, content, lines, stack, problems, fs0>>

\* the closing braces appended to a text that is closed, as without the
\* test of line 18
FMB_ClosedAppending ==
    /\ pc = "fmb_fix"
    /\ ProperlyClosed(content)
    /\ fs' = WriteFile(fs, ModRs, content \o ClosingBrackets)
    /\ io' = Logged(ModRs, content \o ClosingBrackets)
    /\ pc' = "done"
    /\ UNCHANGED <<all_files, file_index, original_content, rule, parked, changes_made, script, runs, target_file, content, lines, stack, problems, fs0>>

\* lines 35-36
FMB_Closed ==
    /\ pc = "fmb_fix"
    /\ ProperlyClosed(content)
    /\ pc' = "done"
    /\ UNCHANGED <<all_files, file_index, original_content, rule, parked, changes_made, fs, script, runs, target_file, content, lines, stack, problems, fs0, io>>

----------------------------------------------------------------------------
(* fix_scripts/check_brackets.py *)

BracketsManualBak == "crates/backups/manual/mod.rs.brackets.bak"
FirstFixIndex == 860
LastFixIndex == 890

\* f.readlines(): the lines of the text, each with its newline
ReadLines(text) ==
    LET ps == SplitNL(text)
        n == Len(ps)
    IN  [i \in 1..(n - 1) |-> ps[i] \o <<NL>>]
          \o (IF ps[n] = <<>> THEN <<>> ELSE <<ps[n]>>)

\* f.writelines(ls)
WriteLines(ls) == JoinRange(ls, <<>>, 1, Len(ls))

\* line.rstrip('\n')
RECURSIVE RStripNL(_)
RStripNL(l) == IF l # <<>> /\ l[Len(l)] = NL THEN RStripNL(SubSeq(l, 1, Len(l) - 1)) ELSE l

\* (a pop from the wrong end: first-in first-out)
PopOldest(st) == Tail(st)

\* line 27: stack.pop()
Pop(st) == SubSeq(st, 1, Len(st) - 1)

\* (a scan that pops when it can and reports no excess closer)
ScanCharSilent(a, char, line_num, col) ==
    IF char = "{" THEN [a EXCEPT !.stack = Append(@, <<line_num, col>>)]
    ELSE IF char = "}" /\ a.stack # <<>> THEN [a EXCEPT !.stack = Pop(@)]
    ELSE a

\* lines 22-30: one character of the scan; a is the pair of stack and problems
ScanChar(a, char, line_num, col) ==
    IF char = "{" THEN [a EXCEPT !.stack = Append(@, <<line_num, col>>)]
    ELSE IF char = "}"
         THEN IF a.stack # <<>>
              THEN [a EXCEPT !.stack = Pop(@)]
              ELSE [a EXCEPT !.problems =
                        Append(@, [kind |-> "excess", line |-> line_num, col |-> col])]
         ELSE a

RECURSIVE ScanLine(_, _, _, _)
ScanLine(a, line_text, j, line_num) ==
    IF j > Len(line_text) THEN a
    ELSE ScanLine(ScanChar(a, line_text[j], line_num, j), line_text, j + 1, line_num)

\* lines 33-35: lines[i-1] of the first line is the last line
IndentProblem(a, ls, i) ==
    LET line_text == RStripNL(ls[i])
        prev == IF i = 1 THEN ls[Len(ls)] ELSE ls[i - 1]
    IN  IF StartsWith(line_text, Indented) /\ ~Contains(prev, <<"else">>)
        THEN [a EXCEPT !.problems = Append(@, [kind |-> "indent", line |-> i, col |-> 0])]
        ELSE a

\* lines 17-43 for the lines lo..hi, the range halved to keep the recursion flat
RECURSIVE ScanLines(_, _, _, _)
ScanLines(a, ls, lo, hi) ==
    IF lo > hi THEN a
    ELSE IF lo = hi
         THEN IndentProblem(ScanLine(a, RStripNL(ls[lo]), 1, lo), ls, lo)
         ELSE LET mid == (lo + hi) \div 2
                  b == ScanLines(a, ls, lo, mid)
              IN  IF Len(b.stack) >= 0    \* b is computed before going on
                  THEN ScanLines(b, ls, mid + 1, hi) ELSE b

\* lines 46-47
Unclosed(st) == [k \in 1..Len(st) |-> [kind |-> "unclosed", line |-> st[k][1], col |-> st[k][2]]]

\* lines 13-47
Analyze(ls) ==
    LET a == ScanLines([stack |-> <<>>, problems |-> <<>>], ls, 1, Len(ls))
    IN  [stack |-> a.stack, problems |-> a.problems \o Unclosed(a.stack)]

\* lines 81-86
FixRange(ls) == {i \in (FirstFixIndex + 1)..Min({LastFixIndex, Len(ls)}) :
                    Strip(ls[i]) = <<"}">> /\ StartsWith(ls[i], Indented)}
\* the re-indented line written without its brace
FixLinesDroppingBrace(ls) == [i \in 1..Len(ls) |-> IF i \in FixRange(ls) THEN <<NL>> ELSE ls[i]]
FixLines(ls) == [i \in 1..Len(ls) |-> IF i \in FixRange(ls) THEN <<"}", NL>> ELSE ls[i]]

CB_Read ==
    /\ pc = "cb_read"
    /\ lines' = ReadLines(fs[ModRs])
    /\ pc' = "cb_scan"
    /\ UNCHANGED <<all_files, file_index, original_content, rule, parked, changes_made, fs, script, runs, target_file, content, stack, problems, fs0, io>>

\* lines 13-47
CB_Scan ==
    /\ pc = "cb_scan"
    /\ stack' = Analyze(lines).stack
    /\ problems' = Analyze(lines).problems
    /\ pc' = "cb_report"
    /\ UNCHANGED <<all_files, file_index, original_content, rule, parked, changes_made, fs, script, runs, target_file, content, lines, fs0, io>>

\* lines 103-104
CB_Clean ==
    /\ pc = "cb_report"
    /\ problems = <<>>
    /\ pc' = "done"
    /\ UNCHANGED <<all_files, file_index, original_content, rule, parked, changes_made, fs, script, runs, target_file, content, lines, stack, problems, fs0, io>>

\* lines 50-88, nothing to re-indent
CB_NoFix ==
    /\ pc = "cb_report"
    /\ problems # <<>>
    /\ FixRange(lines) = {}
    /\ pc' = "done"
    /\ UNCHANGED <<all_files, file_index, original_content, rule, parked, changes_made, fs, script, runs, target_file, content, lines, stack, problems, fs0, io>>

\* lines 50-88, some line re-indented
CB_Fix ==
    /\ pc = "cb_report"
    /\ problems # <<>>
    /\ FixRange(lines) # {}
    /\ lines' = FixLines(lines)
    /\ pc' = "cb_backup"
    /\ UNCHANGED <<all_files, file_index, original_content, rule, parked, changes_made, fs, script, runs, target_file, content, stack, problems, fs0, io>>

\* lines 89-97
CB_Backup ==
    /\ pc = "cb_backup"
    /\ fs' = WriteFile(fs, BracketsManualBak, WriteLines(lines))
    /\ io' = Logged(BracketsManualBak, WriteLines(lines))
    /\ pc' = "cb_write"
    /\ UNCHANGED <<all_files, file_index, original_content, rule, parked, changes_made, script, runs, target_file, content, lines, stack, problems, fs0>>

\* lines 99-102
CB_Write ==
    /\ pc = "cb_write"
    /\ fs' = WriteFile(fs, ModRs, WriteLines(lines))
    /\ io' = Logged(ModRs, WriteLines(lines))
    /\ pc' = "done"
    /\ UNCHANGED <<all_files, file_index, original_content, rule, parked, changes_made, script, runs, target_file, content, lines, stack, problems, fs0>>

---------------------------------------------------------------------------------------------------------------------------------------------------
(* fix_codegen_rs.py *)

CodegenRs == "crates/swiftlight-compiler/src/backend/llvm/codegen.rs"
CodegenBakFix == "crates/swiftlight-compiler/src/backend/llvm/codegen.rs.bak-fix"

\* "self.builder." as one unit
SB == "self.builder."

\* line 27: build_struct_gep\([0-9]+\s*(as\s*u32)?\s*,
FcrGepFixed ==
    <<Lit("build_struct_gep"), Lit("("), Plus("digit"), Star("space"),
      Opt(3), Lit("as"), Star("space"), Lit("u32"), Star("space"), Lit(",")>>

\* line 30: (self\.builder\.build_struct_gep\()([^,]+),\s*([^,]+),\s*([^,]+),\s*([^,\)]+)(\))
FcrGepPat ==
    <<Open, Lit(SB), Lit("build_struct_gep"), Lit("("), Close,
      Open, Plus("notcomma"), Close, Lit(","), Star("space"),
      Open, Plus("notcomma"), Close, Lit(","), Star("space"),
      Open, Plus("notcomma"), Close, Lit(","), Star("space"),
      Open, Plus("notcommaparen"), Close, Open, Lit(")"), Close>>
\* line 31: \1\4, \5\6
FcrGepTmpl == <<Group(1), Group(4), Text(","), Text(" "), Group(5), Group(6)>>

\* line 40: (self\.builder\.build_load\()([^,]+),\s*([^,]+),\s*([^,\)]+)(\))
FcrLoadPat ==
    <<Open, Lit(SB), Lit("build_load"), Lit("("), Close,
      Open, Plus("notcomma"), Close, Lit(","), Star("space"),
      Open, Plus("notcomma"), Close, Lit(","), Star("space"),
      Open, Plus("notcommaparen"), Close, Open, Lit(")"), Close>>
\* line 41: \1\3, \4\5
FcrLoadTmpl == <<Group(1), Group(3), Text(","), Text(" "), Group(4), Group(5)>>

\* lines 25-33
FcrGepLine(line) ==
    IF Contains(line, <<"build_struct_gep">>) /\ ~Search(FcrGepFixed, line)
    THEN Sub(FcrGepPat, FcrGepTmpl, line) ELSE line

\* lines 37-43
FcrLoadLine(line) ==
    IF Contains(line, <<"build_load">>) THEN Sub(FcrLoadPat, FcrLoadTmpl, line) ELSE line

\* lines 22-45
FcrFixedLines(ls) == [i \in 1..Len(ls) |-> FcrLoadLine(FcrGepLine(ls[i]))]

\* lines 10-12: shutil.copy2
FCR_Backup ==
    /\ pc = "fcr_backup"
    /\ fs' = WriteFile(fs, CodegenBakFix, fs[CodegenRs])
    /\ io' = Logged(CodegenBakFix, fs[CodegenRs])
    /\ pc' = "fcr_read"
    /\ UNCHANGED <<all_files, file_index, original_content, rule, parked, changes_made, script, runs, target_file, content, lines, stack, problems, fs0>>

\* lines 15-16
FCR_Read ==
    /\ pc = "fcr_read"
    /\ lines' = ReadLines(fs[CodegenRs])
    /\ pc' = "fcr_write"
    /\ UNCHANGED <<all_files, file_index, original_content, rule, parked, changes_made, fs, script, runs, target_file, content, stack, problems, fs0, io>>

\* lines 19-49
FCR_Write ==
    /\ pc = "fcr_write"
    /\ fs' = WriteFile(fs, CodegenRs, WriteLines(FcrFixedLines(lines)))
    /\ io' = Logged(CodegenRs, WriteLines(FcrFixedLines(lines)))
    /\ pc' = "done"
    /\ UNCHANGED <<all_files, file_index, original_content, rule, parked, changes_made, script, runs, target_file, content, lines, stack, problems, fs0>>

----------------------------------------------------------------------------
(* fix_all_files.py *)

\* lines 7-10
target_files == <<ModRs, CodegenRs>>
\* line 17
BakSafe(t) ==
    IF t = ModRs THEN "crates/swiftlight-compiler/src/middleend/ir/mod.rs.bak-safe"
    ELSE "crates/swiftlight-compiler/src/backend/llvm/codegen.rs.bak-safe"

\* line 34: build_struct_gep\s*\(\s*[0-9]+\s*(as\s*u32)?\s*,
FafGepFixed ==
    <<Lit("build_struct_gep"), Star("space"), Lit("("), Star("space"), Plus("digit"),
      Star("space"), Opt(3), Lit("as"), Star("space"), Lit("u32"), Star("space"), Lit(",")>>

\* line 40: build_struct_gep\s*\(\s*([^,]+)\s*,\s*([^,]+)\s*,\s*([^,]+)\s*,\s*([^,\)]+)\s*\)
FafGepPat ==
    <<Lit("build_struct_gep"), Star("space"), Lit("("), Star("space"),
      Open, Plus("notcomma"), Close, Star("space"), Lit(","), Star("space"),
      Open, Plus("notcomma"), Close, Star("space"), Lit(","), Star("space"),
      Open, Plus("notcomma"), Close, Star("space"), Lit(","), Star("space"),
      Open, Plus("notcommaparen"), Close, Star("space"), Lit(")")>>
\* line 41: build_struct_gep(\3, \4)
FafGepTmpl ==
    <<Text("build_struct_gep"), Text("("), Group(3), Text(","), Text(" "), Group(4), Text(")")>>

\* line 49: build_load\s*\(\s*[^,]+\s*,\s*[^,]+\s*,
FafLoadThree ==
    <<Lit("build_load"), Star("space"), Lit("("), Star("space"),
      Plus("notcomma"), Star("space"), Lit(","), Star("space"),
      Plus("notcomma"), Star("space"), Lit(",")>>

\* line 54: build_load\s*\(\s*([^,]+)\s*,\s*([^,]+)\s*,\s*([^,\)]+)\s*\)
FafLoadPat ==
    <<Lit("build_load"), Star("space"), Lit("("), Star("space"),
      Open, Plus("notcomma"), Close, Star("space"), Lit(","), Star("space"),
      Open, Plus("notcomma"), Close, Star("space"), Lit(","), Star("space"),
      Open, Plus("notcommaparen"), Close, Star("space"), Lit(")")>>
\* line 55: build_load(\2, \3)
FafLoadTmpl ==
    <<Text("build_load"), Text("("), Group(2), Text(","), Text(" "), Group(3), Text(")")>>

\* lines 30-60
FafLine(line) ==
    IF Contains(line, <<"build_struct_gep">>)
    THEN IF Search(FafGepFixed, line) THEN line ELSE Sub(FafGepPat, FafGepTmpl, line)
    ELSE IF Contains(line, <<"build_load">>)
         THEN IF ~Search(FafLoadThree, line) THEN line ELSE Sub(FafLoadPat, FafLoadTmpl, line)
         ELSE line

FafFixedLines(ls) == [i \in 1..Len(ls) |-> FafLine(ls[i])]

\* lines 17-22, the backup does not exist yet
FAF_Backup ==
    /\ pc = "faf_backup"
    /\ BakSafe(target_file) \notin DOMAIN fs
    /\ fs' = WriteFile(fs, BakSafe(target_file), fs[target_file])
    /\ io' = Logged(BakSafe(target_file), fs[target_file])
    /\ pc' = "faf_read"
    /\ UNCHANGED <<all_files, file_index, original_content, rule, parked, changes_made, script, runs, target_file, content, lines, stack, problems, fs0>>

\* line 18, the backup exists
FAF_KeepBackup ==
    /\ pc = "faf_backup"
    /\ BakSafe(target_file) \in DOMAIN fs
    /\ pc' = "faf_read"
    /\ UNCHANGED <<all_files, file_index, original_content, rule, parked, changes_made, fs, script, runs, target_file, content, lines, stack, problems, fs0, io>>

\* lines 25-26
FAF_Read ==
    /\ pc = "faf_read"
    /\ lines' = ReadLines(fs[target_file])
    /\ pc' = "faf_write"
    /\ UNCHANGED <<all_files, file_index, original_content, rule, parked, changes_made, fs, script, runs, target_file, content, stack, problems, fs0, io>>

\* lines 29-66, and line 13 for the next file
FAF_Write ==
    /\ pc = "faf_write"
    /\ fs' = WriteFile(fs, target_file, WriteLines(FafFixedLines(lines)))
    /\ io' = Logged(target_file, WriteLines(FafFixedLines(lines)))
    /\ IF target_file = target_files[1]
       THEN pc' = "faf_backup" /\ target_file' = target_files[2]
       ELSE pc' = "done" /\ target_file' = target_file
    /\ UNCHANGED <<all_files, file_index, original_content, rule, parked, changes_made, script, runs, content, lines, stack, problems, fs0>>

----------------------------------------------------------------------------
(* fix_type_specialization.py *)

TypeSpecRs == "crates/swiftlight-compiler/src/middleend/optimization/type_specialization.rs"

Sp4 == <<" ", " ", " ", " ">>
\* the lines of the two literals; the comment of line 14 is written in ASCII
ForAllComment == Sp4 \o <<"// forall constraint">>
ForAllOpen == Sp4 \o <<"ForAll", " ", "{">>
ForAllVariables == Sp4 \o Sp4 \o <<"variables: Vec<(String, DependentTypeExpression)>,">>
ForAllConstraint == Sp4 \o Sp4 \o <<"constraint: Box<DependentTypeConstraint>,">>
ImplEngine == <<"impl TypeLevelComputationEngine", " ", "{">>

\* lines 14-17
OldForAll ==
    ForAllComment \o <<NL>> \o ForAllOpen \o <<NL>> \o ForAllVariables \o <<NL>> \o ImplEngine
\* lines 18-25
NewForAll ==
    ForAllComment \o <<NL>> \o ForAllOpen \o <<NL>> \o ForAllVariables \o <<NL>>
      \o ForAllConstraint \o <<NL>> \o Sp4 \o <<"}", ",", NL>> \o <<"}", NL>> \o <<NL>> \o ImplEngine

\* lines 7-8
FTS_Read ==
    /\ pc = "fts_read"
    /\ content' = fs[TypeSpecRs]
    /\ pc' = "fts_write"
    /\ UNCHANGED <<all_files, file_index, original_content, rule, parked, changes_made, fs, script, runs, target_file, lines, stack, problems, fs0, io>>

\* lines 13-30
FTS_Write ==
    /\ pc = "fts_write"
    /\ fs' = WriteFile(fs, TypeSpecRs, Replace(content, OldForAll, NewForAll))
    /\ io' = Logged(TypeSpecRs, Replace(content, OldForAll, NewForAll))
    /\ pc' = "done"
    /\ UNCHANGED <<all_files, file_index, original_content, rule, parked, changes_made, script, runs, target_file, content, lines, stack, problems, fs0>>

----------------------------------------------------------------------------
(* fix_scripts/fix_additional_gep.py *)

Gep2Bak == "crates/backups/manual/mod.rs.gep2.bak"

Indent(n) == Repeat(<<" ">>, n)
\* the end of lines 27 and 31; the message is written in ASCII
MapErr ==
    <<".map_err(|_| CompilerError::new(ErrorKind::CodeGeneration, format!(", "\"",
      "tuple element ", "{", "}", " access failed", "\"", ", i),">>
\* lines 25-27
gep_error1 ==
    Indent(4) \o <<"let element_ptr = unsafe", " ", "{", NL>>
      \o Indent(8) \o <<"self.builder.build_struct_gep(i)", NL>>
      \o Indent(8) \o <<")">> \o MapErr
\* lines 29-31
gep_fix1 ==
    Indent(4) \o <<"let element_ptr = unsafe", " ", "{", NL>>
      \o Indent(8) \o <<"self.builder.build_struct_gep(tuple_ptr, i, &format!(", "\"",
                        "tuple_", "{", "}", "\"", ", i))", NL>>
      \o Indent(4) \o <<"}">> \o MapErr
\* lines 34-36
gep_error2 ==
    Indent(18) \o <<"let field_ptr = unsafe", " ", "{", NL>>
      \o Indent(40) \o <<"self.builder.build_struct_gep(field_name.name)", NL>>
      \o Indent(40) \o <<")", ";">>
\* lines 38-40
gep_fix2 ==
    Indent(18) \o <<"let field_ptr = unsafe", " ", "{", NL>>
      \o Indent(40)
      \o <<"self.builder.build_struct_gep(struct_ptr, field_idx, &field_name.name)", NL>>
      \o Indent(36) \o <<"}", ";">>

\* line 43
GepReplaced(text) == Replace(Replace(text, gep_error1, gep_fix1), gep_error2, gep_fix2)

\* lines 47-59: the last line is made a closing brace, or one is added
FixLastLine(modified_content) ==
    LET ls == SplitNL(modified_content)
        last_line == Strip(ls[Len(ls)])
    IN  IF last_line = <<"}">> THEN modified_content
        ELSE IF Contains(last_line, <<"}">>)
             THEN JoinNL([ls EXCEPT ![Len(ls)] = <<"}">>])
             ELSE modified_content \o <<NL, "}">>

\* lines 13-17
FAG_Backup ==
    /\ pc = "fag_backup"
    /\ fs' = WriteFile(fs, Gep2Bak, fs[ModRs])
    /\ io' = Logged(Gep2Bak, fs[ModRs])
    /\ pc' = "fag_read"
    /\ UNCHANGED <<all_files, file_index, original_content, rule, parked, changes_made, script, runs, target_file, content, lines, stack, problems, fs0>>

\* lines 20-21
FAG_Read ==
    /\ pc = "fag_read"
    /\ content' = fs[ModRs]
    /\ pc' = "fag_write"
    /\ UNCHANGED <<all_files, file_index, original_content, rule, parked, changes_made, fs, script, runs, target_file, lines, stack, problems, fs0, io>>

\* lines 43-63
FAG_Write ==
    /\ pc = "fag_write"
    /\ fs' = WriteFile(fs, ModRs, FixLastLine(GepReplaced(content)))
    /\ io' = Logged(ModRs, FixLastLine(GepReplaced(content)))
    /\ lines' = SplitNL(FixLastLine(GepReplaced(content)))
    /\ pc' = "done"
    /\ UNCHANGED <<all_files, file_index, original_content, rule, parked, changes_made, script, runs, target_file, content, stack, problems, fs0>>

----------------------------------------------------------------------------
(* fix_scripts/fix_ast.py *)

SemanticModRs == "crates/swiftlight-compiler/src/frontend/semantic/mod.rs"

\* lines 15-22: glob("crates/swiftlight-compiler/src/**/*.rs") finds the
\* Rust files below target_dir; the backups are not below it
NameResolverRs == "crates/swiftlight-compiler/src/frontend/semantic/name_resolver.rs"
TypeCheckerRs == "crates/swiftlight-compiler/src/frontend/semantic/type_checker.rs"
RsPaths == {ModRs, SemanticModRs, CodegenRs, TypeSpecRs, NameResolverRs, TypeCheckerRs}
Globbed(f) == RsPaths \cap DOMAIN f

\* os.path.basename
basename(path) ==
    CASE path \in {ModRs, SemanticModRs} -> "mod.rs"
      [] path = CodegenRs -> "codegen.rs"
      [] path = TypeSpecRs -> "type_specialization.rs"
      [] path = NameResolverRs -> "name_resolver.rs"
      [] path = TypeCheckerRs -> "type_checker.rs"

\* line 96: os.path.join(backup_dir, os.path.basename(file_path) + ".bak")
AstBackupPath(path) ==
    CASE basename(path) = "mod.rs" -> "crates/backups/ast/mod.rs.bak"
      [] basename(path) = "codegen.rs" -> "crates/backups/ast/codegen.rs.bak"
      [] basename(path) = "type_specialization.rs" -> "crates/backups/ast/type_specialization.rs.bak"
      [] basename(path) = "name_resolver.rs" -> "crates/backups/ast/name_resolver.rs.bak"
      [] basename(path) = "type_checker.rs" -> "crates/backups/ast/type_checker.rs.bak"

\* the orders in which glob may list the files of S
Orders(S) ==
    {o \in [1..Cardinality(S) -> S] : \A i, j \in 1..Cardinality(S) : o[i] = o[j] => i = j}

\* lines 27-79
replacements == <<
    \* line 29
    [old |-> <<Lit("TypeKind::"), Lit("Int")>>,
     new |-> <<Text("TypeKind::"), Text("Primitive(PrimitiveType::"), Text("Int"), Text(")")>>],
    \* line 30
    [old |-> <<Lit("TypeKind::"), Lit("Float")>>,
     new |-> <<Text("TypeKind::"), Text("Primitive(PrimitiveType::"), Text("Float"), Text(")")>>],
    \* line 31
    [old |-> <<Lit("TypeKind::"), Lit("Bool")>>,
     new |-> <<Text("TypeKind::"), Text("Primitive(PrimitiveType::"), Text("Bool"), Text(")")>>],
    \* line 32
    [old |-> <<Lit("TypeKind::"), Lit("String")>>,
     new |-> <<Text("TypeKind::"), Text("Primitive(PrimitiveType::"), Text("String"), Text(")")>>],
    \* line 33
    [old |-> <<Lit("TypeKind::"), Lit("Char")>>,
     new |-> <<Text("TypeKind::"), Text("Primitive(PrimitiveType::"), Text("Char"), Text(")")>>],
    \* line 34
    [old |-> <<Lit("TypeKind::"), Lit("Void")>>,
     new |-> <<Text("TypeKind::"), Text("Primitive(PrimitiveType::"), Text("Void"), Text(")")>>],
    \* line 37
    [old |-> <<Lit("DeclarationKind::"), Lit("Function")>>,
     new |-> <<Text("DeclarationKind::"), Text("Function"), Text("Decl")>>],
    \* line 38
    [old |-> <<Lit("DeclarationKind::"), Lit("Variable")>>,
     new |-> <<Text("DeclarationKind::"), Text("Variable"), Text("Decl")>>],
    \* line 39
    [old |-> <<Lit("DeclarationKind::"), Lit("Constant")>>,
     new |-> <<Text("DeclarationKind::"), Text("Constant"), Text("Decl")>>],
    \* line 40
    [old |-> <<Lit("DeclarationKind::"), Lit("Struct")>>,
     new |-> <<Text("DeclarationKind::"), Text("Struct"), Text("Decl")>>],
    \* line 41
    [old |-> <<Lit("DeclarationKind::"), Lit("Enum")>>,
     new |-> <<Text("DeclarationKind::"), Text("Enum"), Text("Decl")>>],
    \* line 42
    [old |-> <<Lit("DeclarationKind::"), Lit("Trait")>>,
     new |-> <<Text("DeclarationKind::"), Text("Trait"), Text("Decl")>>],
    \* line 43
    [old |-> <<Lit("DeclarationKind::"), Lit("Implementation")>>,
     new |-> <<Text("DeclarationKind::"), Text("Implementation"), Text("Decl")>>],
    \* line 44
    [old |-> <<Lit("DeclarationKind::"), Lit("TypeAlias")>>,
     new |-> <<Text("DeclarationKind::"), Text("TypeAlias"), Text("Decl")>>],
    \* line 45
    [old |-> <<Lit("DeclarationKind::"), Lit("Import")>>,
     new |-> <<Text("DeclarationKind::"), Text("Import"), Text("Decl")>>],
    \* line 48
    [old |-> <<Lit("StatementKind::"), Lit("Expression")>>,
     new |-> <<Text("StatementKind::"), Text("Expression"), Text("Stmt")>>],
    \* line 49
    [old |-> <<Lit("StatementKind::"), Lit("Declaration")>>,
     new |-> <<Text("StatementKind::"), Text("Declaration"), Text("Stmt")>>],
    \* line 50
    [old |-> <<Lit("StatementKind::"), Lit("If")>>,
     new |-> <<Text("StatementKind::"), Text("If"), Text("Stmt")>>],
    \* line 51
    [old |-> <<Lit("StatementKind::"), Lit("While")>>,
     new |-> <<Text("StatementKind::"), Text("While"), Text("Stmt")>>],
    \* line 52
    [old |-> <<Lit("StatementKind::"), Lit("For")>>,
     new |-> <<Text("StatementKind::"), Text("For"), Text("Stmt")>>],
    \* line 53
    [old |-> <<Lit("StatementKind::"), Lit("Return")>>,
     new |-> <<Text("StatementKind::"), Text("Return"), Text("Stmt")>>],
    \* line 54
    [old |-> <<Lit("StatementKind::"), Lit("Break")>>,
     new |-> <<Text("StatementKind::"), Text("Break"), Text("Stmt")>>],
    \* line 55
    [old |-> <<Lit("StatementKind::"), Lit("Continue")>>,
     new |-> <<Text("StatementKind::"), Text("Continue"), Text("Stmt")>>],
    \* line 58
    [old |-> <<Lit("ExpressionKind::"), Lit("ResultBind")>>,
     new |-> <<Text("ExpressionKind::"), Text("ResultBind"), Text("Expr")>>],
    \* line 59
    [old |-> <<Lit("ExpressionKind::"), Lit("ResultMap")>>,
     new |-> <<Text("ExpressionKind::"), Text("ResultMap"), Text("Expr")>>],
    \* line 62
    [old |-> <<Lit("BinaryOperator::"), Lit("Less"), Lit("Than"), Lit("Equal")>>,
     new |-> <<Text("BinaryOperator::"), Text("Less"), Text("Equal")>>],
    \* line 63
    [old |-> <<Lit("BinaryOperator::"), Lit("Greater"), Lit("Than"), Lit("Equal")>>,
     new |-> <<Text("BinaryOperator::"), Text("Greater"), Text("Equal")>>],
    \* line 64
    [old |-> <<Lit("BinaryOperator::"), Lit("Logical"), Lit("And")>>,
     new |-> <<Text("BinaryOperator::"), Text("And")>>],
    \* line 65
    [old |-> <<Lit("BinaryOperator::"), Lit("Logical"), Lit("Or")>>,
     new |-> <<Text("BinaryOperator::"), Text("Or")>>],
    \* line 66
    [old |-> <<Lit("BinaryOperator::"), Lit("Bit"), Lit("wise"), Lit("And")>>,
     new |-> <<Text("BinaryOperator::"), Text("Bit"), Text("And")>>],
    \* line 67
    [old |-> <<Lit("BinaryOperator::"), Lit("Bit"), Lit("wise"), Lit("Or")>>,
     new |-> <<Text("BinaryOperator::"), Text("Bit"), Text("Or")>>],
    \* line 68
    [old |-> <<Lit("BinaryOperator::"), Lit("Bit"), Lit("wise"), Lit("Xor")>>,
     new |-> <<Text("BinaryOperator::"), Text("Bit"), Text("Xor")>>],
    \* line 71
    [old |-> <<Lit("UnaryOperator::"), Lit("Bit"), Lit("wise"), Lit("Not")>>,
     new |-> <<Text("UnaryOperator::"), Text("Bit"), Text("Not")>>],
    \* line 74
    [old |-> <<Lit("program."), Lit("file_name")>>,
     new |-> <<Text("program."), Text("source_path")>>],
    \* line 75
    [old |-> <<Lit("program."), Lit("statements")>>,
     new |-> <<Text("program."), Text("declarations")>>],
    \* line 78
    [old |-> <<Lit("CompilerError::code_generation_error"), Lit("("), Open, Plus("notcomma"), Close,
          Lit(","), Star("space"), Open, Plus("notcommaparen"), Close, Lit(")")>>,
     new |-> <<Text("CompilerError::new(ErrorKind::CodeGeneration"), Text(","), Text(" "), Group(1),
          Text(","), Text(" "), Group(2), Text(")")>>]
>>

\* lines 108-126 for one pair old, new
ApplyRule(r, text) == IF Search(r.old, text) THEN Sub(r.old, r.new, text) ELSE text

file_path == all_files[file_index]

\* lines 94, 132: the next file of the loop, or the end of the script
NextFile ==
    /\ file_index' = file_index + 1
    /\ pc' = IF file_index < Len(all_files) THEN "fa_backup" ELSE "done"

\* lines 20-22
FA_Glob ==
    /\ pc = "fa_glob"
    /\ all_files' \in Orders(Globbed(fs))
    /\ file_index' = 1
    /\ pc' = IF Globbed(fs) = {} THEN "done" ELSE "fa_backup"
    /\ UNCHANGED <<fs, script, runs, target_file, content, lines, stack, problems, fs0, io,
                   original_content, rule, parked, changes_made>>

\* lines 96-97: shutil.copy2
FA_Backup ==
    /\ pc = "fa_backup"
    /\ fs' = WriteFile(fs, AstBackupPath(file_path), fs[file_path])
    /\ io' = Logged(AstBackupPath(file_path), fs[file_path])
    /\ pc' = "fa_read"
    /\ UNCHANGED <<script, runs, target_file, content, lines, stack, problems, fs0,
                   all_files, file_index, original_content, rule, parked, changes_made>>

\* lines 100-104
FA_Read ==
    /\ pc = "fa_read"
    /\ content' = fs[file_path]
    /\ original_content' = fs[file_path]
    /\ rule' = 1
    /\ pc' = "fa_rules"
    /\ UNCHANGED <<fs, script, runs, target_file, lines, stack, problems, fs0, io,
                   all_files, file_index, parked, changes_made>>

\* lines 107-126: one turn of the loop over replacements
FA_Rule ==
    /\ pc = "fa_rules"
    /\ rule <= Len(replacements)
    /\ content' = ApplyRule(replacements[rule], content)
    /\ rule' = rule + 1
    /\ UNCHANGED <<fs, script, pc, runs, target_file, lines, stack, problems, fs0, io,
                   all_files, file_index, original_content, parked, changes_made>>

\* lines 129-131
FA_Write ==
    /\ pc = "fa_rules"
    /\ rule > Len(replacements)
    /\ content # original_content
    /\ fs' = WriteFile(fs, file_path, content)
    /\ io' = Logged(file_path, content)
    /\ NextFile
    /\ UNCHANGED <<script, runs, target_file, content, lines, stack, problems, fs0,
                   all_files, original_content, rule, parked, changes_made>>

\* (the file written although the content is as it was read)
FA_SameWritten ==
    /\ pc = "fa_rules"
    /\ rule > Len(replacements)
    /\ content = original_content
    /\ fs' = WriteFile(fs, file_path, content)
    /\ io' = Logged(file_path, content)
    /\ NextFile
    /\ UNCHANGED <<script, runs, target_file, content, lines, stack, problems, fs0,
                   all_files, original_content, rule, parked, changes_made>>

\* line 129, the content is as it was read
FA_Same ==
    /\ pc = "fa_rules"
    /\ rule > Len(replacements)
    /\ content = original_content
    /\ NextFile
    /\ UNCHANGED <<fs, script, runs, target_file, content, lines, stack, problems, fs0, io,
                   all_files, original_content, rule, parked, changes_made>>

----------------------------------------------------------------------------
(* fix_inkwell2.py *)

Bak4 == "crates/swiftlight-compiler/src/middleend/ir/mod.rs.bak4"

LetValue == "let value = "
LetExprValue == "let expr_value = "
LetFieldPtr == "let field_ptr = "
IndexLoad == "\"indexload\""
MatchExprVal == "\"match_expr_val\""
FormatPtr == "\"{}_ptr\""

\* lines 14-39
fixes == <<
    \* lines 17-18
    [pattern |-> <<Lit(LetValue), Lit(SB), Lit("build_load"), Lit("("), Lit(IndexLoad),
                   Lit(")"), Lit(";")>>,
     replacement |-> <<Text(LetValue), Text(SB), Text("build_load"), Text("("),
                       Text("element_ptr"), Text(","), Text(" "), Text(IndexLoad),
                       Text(")"), Text(";")>>],
    \* lines 20-21
    [pattern |-> <<Lit(LetExprValue), Lit(SB), Lit("build_load"), Lit("("), Lit(MatchExprVal),
                   Lit(")"), Lit(";")>>,
     replacement |-> <<Text(LetExprValue), Text(SB), Text("build_load"), Text("("),
                       Text("expr_ptr"), Text(","), Text(" "), Text(MatchExprVal),
                       Text(")"), Text(";")>>],
    \* lines 24-25
    [pattern |-> <<Lit(LetValue), Lit(SB), Lit("build_load"), Lit("("),
                   Open, Plus("notcomma"), Close, Lit(","), Star("space"),
                   Open, Plus("notcomma"), Close, Lit(","), Star("space"),
                   Open, Plus("notcommaparen"), Close, Lit(")")>>,
     replacement |-> <<Text(LetValue), Text(SB), Text("build_load"), Text("("),
                       Group(2), Text(","), Text(" "), Group(3), Text(")")>>],
    \* lines 29-30
    [pattern |-> <<Lit(SB), Lit("build_struct_gep"), Lit("("),
                   Open, Plus("notcomma"), Close, Lit(","), Star("space"),
                   Open, Plus("notcomma"), Close, Lit(","), Star("space"),
                   Open, Plus("notcomma"), Close, Lit(","), Star("space"),
                   Open, Plus("notcommaparen"), Close, Lit(")")>>,
     replacement |-> <<Text(SB), Text("build_struct_gep"), Text("("),
                       Group(3), Text(","), Text(" "), Group(4), Text(")")>>],
    \* lines 33-34
    [pattern |-> <<Lit(LetFieldPtr), Lit(SB), Lit("build_struct_gep"), Lit("("),
                   Open, Plus("notcommanl"), Close, Lit(","), Star("space"), Lit(NL)>>,
     replacement |-> <<Text(LetFieldPtr), Text(SB), Text("build_struct_gep"), Text("("),
                       Text(NL)>>],
    \* lines 37-38
    [pattern |-> <<Lit("build_struct_gep"), Lit("("), Lit("idx as u32"), Lit(","), Lit(" "),
                   Lit("&format!"), Lit("("), Lit(FormatPtr), Lit(","), Lit(" "),
                   Lit("field_name.name"), Lit(")")>>,
     replacement |-> <<Text("build_struct_gep"), Text("("), Text("struct_ptr"), Text(","),
                       Text(" "), Text("idx as u32"), Text(","), Text(" "),
                       Text("&format!"), Text("("), Text(FormatPtr), Text(","), Text(" "),
                       Text("field_name.name"), Text(")")>>]
>>

\* (a fix applied to the text as it was read)
ApplyFixToOriginal(f, text) == Sub(f.pattern, f.replacement, fs[target_file])

\* line 47 for one pair pattern, replacement
ApplyFix(f, text) == Sub(f.pattern, f.replacement, text)

\* lines 7-11
FI2_Backup ==
    /\ pc = "fi2_backup"
    /\ Bak4 \notin DOMAIN fs
    /\ fs' = WriteFile(fs, Bak4, fs[target_file])
    /\ io' = Logged(Bak4, fs[target_file])
    /\ pc' = "fi2_read"
    /\ UNCHANGED <<script, runs, target_file, content, lines, stack, problems, fs0,
                   all_files, file_index, original_content, rule, parked, changes_made>>

\* line 7, the backup exists
FI2_KeepBackup ==
    /\ pc = "fi2_backup"
    /\ Bak4 \in DOMAIN fs
    /\ pc' = "fi2_read"
    /\ UNCHANGED <<fs, script, runs, target_file, content, lines, stack, problems, fs0, io,
                   all_files, file_index, original_content, rule, parked, changes_made>>

\* lines 42-43
FI2_Read ==
    /\ pc = "fi2_read"
    /\ content' = fs[target_file]
    /\ rule' = 1
    /\ pc' = "fi2_fixes"
    /\ UNCHANGED <<fs, script, runs, target_file, lines, stack, problems, fs0, io,
                   all_files, file_index, original_content, parked, changes_made>>

\* lines 46-47: one turn of the loop over fixes
FI2_Fix ==
    /\ pc = "fi2_fixes"
    /\ rule <= Len(fixes)
    /\ content' = ApplyFix(fixes[rule], content)
    /\ rule' = rule + 1
    /\ UNCHANGED <<fs, script, pc, runs, target_file, lines, stack, problems, fs0, io,
                   all_files, file_index, original_content, parked, changes_made>>

\* lines 50-51
FI2_Write ==
    /\ pc = "fi2_fixes"
    /\ rule > Len(fixes)
    /\ fs' = WriteFile(fs, target_file, content)
    /\ io' = Logged(target_file, content)
    /\ pc' = "done"
    /\ UNCHANGED <<script, runs, target_file, content, lines, stack, problems, fs0,
                   all_files, file_index, original_content, rule, parked, changes_made>>

----------------------------------------------------------------------------
(* fix_scripts/fix_syntax_errors.py *)

\* lines 11-15
files_to_fix == <<NameResolverRs, TypeCheckerRs, ModRs>>

\* line 24: os.path.join(backup_dir, os.path.basename(file_path) + ".bak")
SyntaxBackupPath(path) ==
    CASE basename(path) = "name_resolver.rs" -> "crates/backups/syntax/name_resolver.rs.bak"
      [] basename(path) = "type_checker.rs" -> "crates/backups/syntax/type_checker.rs.bak"
      [] basename(path) = "mod.rs" -> "crates/backups/syntax/mod.rs.bak"

\* line 39: TypeKind::Primitive\(PrimitiveType::Int\)ersection\(types\)
ErsectionPat ==
    <<Lit("TypeKind::"), Lit("Primitive(PrimitiveType::"), Lit("Int"), Lit(")"),
      Lit("ersection"), Lit("("), Lit("types"), Lit(")")>>
\* line 40: TypeKind::Intersection(types)
ErsectionTmpl ==
    <<Text("TypeKind::"), Text("Int"), Text("ersection"), Text("("), Text("types"), Text(")")>>

\* lines 47-66; the comments and the message are written in ASCII
problematic_code ==
    \* line 47
    Indent(8) \o <<"if let Some", "(", "var_ptr", ")", " = self.variables.get", "(", "var_name", ")", " {">> \o <<NL>> \o
    \* line 48
    Indent(12) \o <<NL>> \o
    \* line 49
    Indent(12) \o <<"// load the value of the variable">> \o <<NL>> \o
    \* line 50
    Indent(12) \o <<"let value = self.builder.build_load", "(", "var_name", ")", ";">> \o <<NL>> \o
    \* line 51
    Indent(12) \o <<"Ok", "(", "value", ")">> \o <<NL>> \o
    \* line 52
    Indent(8) \o <<"} else if let Some", "(", "func", ")", " = self.functions.get", "(", "var_name", ")", " {">> \o <<NL>> \o
    \* line 53
    Indent(12) \o <<"// function reference">> \o <<NL>> \o
    \* line 54
    <<>> \o <<NL>> \o
    \* line 55
    Indent(12) \o <<"// global variable or constant">> \o <<NL>> \o
    \* line 56
    Indent(12) \o <<"if let Some", "(", "global_var", ")", " = self.llvm_module.get_global", "(", "var_name", ")", " {">> \o <<NL>> \o
    \* line 57
    Indent(16) \o <<"let var_type = global_var.get_type", "(", ")", ".get_element_type", "(", ")", ";">> \o <<NL>> \o
    \* line 58
    Indent(16) \o <<"let value = self.builder.build_load", "(", "var_name", ")", ";">> \o <<NL>> \o
    \* line 59
    Indent(16) \o <<"Ok", "(", "value", ")">> \o <<NL>> \o
    \* line 60
    Indent(12) \o <<"} else {">> \o <<NL>> \o
    \* line 61
    Indent(16) \o <<"Err", "(", "CompilerError::new", "(", "ErrorKind::CodeGeneration", ",">> \o Indent(1) \o <<NL>> \o
    \* line 62
    Indent(20) \o <<"format!", "(", "\"undefined identifier '{}'\"", ",", " var_name", ")", ",">> \o <<NL>> \o
    \* line 63
    Indent(20) \o <<"ident.location.clone", "(", ")">> \o <<NL>> \o
    \* line 64
    Indent(16) \o <<")", ")">> \o <<NL>> \o
    \* line 65
    Indent(12) \o <<"}">> \o <<NL>> \o
    \* line 66
    Indent(8) \o <<"}">>

\* lines 68-84
fixed_code ==
    \* line 68
    Indent(8) \o <<"if let Some", "(", "var_ptr", ")", " = self.variables.get", "(", "var_name", ")", " {">> \o <<NL>> \o
    \* line 69
    Indent(12) \o <<"// load the value of the variable">> \o <<NL>> \o
    \* line 70
    Indent(12) \o <<"let value = self.builder.build_load", "(", "var_ptr", ",", " \"load\"", ")", ";">> \o <<NL>> \o
    \* line 71
    Indent(12) \o <<"Ok", "(", "value", ")">> \o <<NL>> \o
    \* line 72
    Indent(8) \o <<"} else if let Some", "(", "func", ")", " = self.functions.get", "(", "var_name", ")", " {">> \o <<NL>> \o
    \* line 73
    Indent(12) \o <<"// function reference">> \o <<NL>> \o
    \* line 74
    Indent(12) \o <<"Ok", "(", "func.as_global_value", "(", ")", ".as_pointer_value", "(", ")", ".into", "(", ")", ")">> \o <<NL>> \o
    \* line 75
    Indent(8) \o <<"} else if let Some", "(", "global_var", ")", " = self.llvm_module.get_global", "(", "var_name", ")", " {">> \o <<NL>> \o
    \* line 76
    Indent(12) \o <<"// global variable or constant">> \o <<NL>> \o
    \* line 77
    Indent(12) \o <<"let value = self.builder.build_load", "(", "global_var.as_pointer_value", "(", ")", ",", " \"global_load\"", ")", ";">> \o <<NL>> \o
    \* line 78
    Indent(12) \o <<"Ok", "(", "value", ")">> \o <<NL>> \o
    \* line 79
    Indent(8) \o <<"} else {">> \o <<NL>> \o
    \* line 80
    Indent(12) \o <<"Err", "(", "CompilerError::new", "(", "ErrorKind::CodeGeneration", ",">> \o Indent(1) \o <<NL>> \o
    \* line 81
    Indent(16) \o <<"format!", "(", "\"undefined identifier '{}'\"", ",", " var_name", ")", ",">> \o <<NL>> \o
    \* line 82
    Indent(16) \o <<"ident.location.clone", "(", ")">> \o <<NL>> \o
    \* line 83
    Indent(12) \o <<")", ")">> \o <<NL>> \o
    \* line 84
    Indent(8) \o <<"}">>


\* line 45: "middleend/ir/mod.rs" in file_path
IsIrModRs(path) == path = ModRs

\* lines 38-86
SyntaxFixed(path, text) ==
    LET t == Sub(ErsectionPat, ErsectionTmpl, text)
    IN  IF IsIrModRs(path) THEN Replace(t, problematic_code, fixed_code) ELSE t

\* lines 18-21: the next file of the list does not exist
FSE_Missing ==
    /\ pc = "fse_loop"
    /\ file_index < Len(files_to_fix)
    /\ files_to_fix[file_index + 1] \notin DOMAIN fs
    /\ file_index' = file_index + 1
    /\ UNCHANGED <<fs, script, pc, runs, target_file, content, lines, stack, problems, fs0, io,
                   all_files, original_content, rule, parked, changes_made>>

\* lines 18-19: the next file of the list exists
FSE_Found ==
    /\ pc = "fse_loop"
    /\ file_index < Len(files_to_fix)
    /\ files_to_fix[file_index + 1] \in DOMAIN fs
    /\ file_index' = file_index + 1
    /\ pc' = "fse_backup"
    /\ UNCHANGED <<fs, script, runs, target_file, content, lines, stack, problems, fs0, io,
                   all_files, original_content, rule, parked, changes_made>>

\* line 18: the list is exhausted
FSE_End ==
    /\ pc = "fse_loop"
    /\ file_index = Len(files_to_fix)
    /\ pc' = "done"
    /\ UNCHANGED <<fs, script, runs, target_file, content, lines, stack, problems, fs0, io,
                   all_files, file_index, original_content, rule, parked, changes_made>>

\* lines 24-28
FSE_Backup ==
    /\ pc = "fse_backup"
    /\ fs' = WriteFile(fs, SyntaxBackupPath(files_to_fix[file_index]),
                       fs[files_to_fix[file_index]])
    /\ io' = Logged(SyntaxBackupPath(files_to_fix[file_index]), fs[files_to_fix[file_index]])
    /\ pc' = "fse_read"
    /\ UNCHANGED <<script, runs, target_file, content, lines, stack, problems, fs0,
                   all_files, file_index, original_content, rule, parked, changes_made>>

\* lines 31-86
FSE_Read ==
    /\ pc = "fse_read"
    /\ original_content' = fs[files_to_fix[file_index]]
    /\ content' = SyntaxFixed(files_to_fix[file_index], fs[files_to_fix[file_index]])
    /\ pc' = "fse_write"
    /\ UNCHANGED <<fs, script, runs, target_file, lines, stack, problems, fs0, io,
                   all_files, file_index, rule, parked, changes_made>>

\* lines 89-92
FSE_Write ==
    /\ pc = "fse_write"
    /\ content # original_content
    /\ fs' = WriteFile(fs, files_to_fix[file_index], content)
    /\ io' = Logged(files_to_fix[file_index], content)
    /\ pc' = "fse_loop"
    /\ UNCHANGED <<script, runs, target_file, content, lines, stack, problems, fs0,
                   all_files, file_index, original_content, rule, parked, changes_made>>

\* lines 89, 93-94
FSE_Same ==
    /\ pc = "fse_write"
    /\ content = original_content
    /\ pc' = "fse_loop"
    /\ UNCHANGED <<fs, script, runs, target_file, content, lines, stack, problems, fs0, io,
                   all_files, file_index, original_content, rule, parked, changes_made>>

----------------------------------------------------------------------------
(* fix_scripts/fix_ir_mod.py *)

ManualBak == "crates/backups/manual/mod.rs.bak"
start_line == 840
end_line == 858

\* ls[:n]
UpTo(ls, n) == SubSeq(ls, 1, IF n < Len(ls) THEN n ELSE Len(ls))

\* ls[n:]
From(ls, n) == IF n < Len(ls) THEN SubSeq(ls, n + 1, Len(ls)) ELSE <<>>

\* lines 25-52; the comments and the message are written in ASCII
new_content ==
    \* line 25
    Indent(4) \o <<"}">> \o <<NL>> \o
    \* line 26
    Indent(4) \o <<NL>> \o
    \* line 27
    Indent(4) \o <<"/// generate the reference to an identifier">> \o <<NL>> \o
    \* line 28
    Indent(4) \o <<"fn generate_identifier", "(", "&self", ",", " ident: &Identifier", ")", " -> Result<BasicValueEnum<'ctx>> {">> \o <<NL>> \o
    \* line 29
    Indent(8) \o <<"// generate the variable reference">> \o <<NL>> \o
    \* line 30
    Indent(8) \o <<"let var_name = &ident.name;">> \o <<NL>> \o
    \* line 31
    Indent(8) \o <<NL>> \o
    \* line 32
    Indent(8) \o <<"if let Some", "(", "var_ptr", ")", " = self.variables.get", "(", "var_name", ")", " {">> \o <<NL>> \o
    \* line 33
    Indent(12) \o <<"// local variable">> \o <<NL>> \o
    \* line 34
    Indent(12) \o <<"// load the value of the variable">> \o <<NL>> \o
    \* line 35
    Indent(12) \o <<"let value = self.builder.build_load", "(", "var_ptr", ",", " \"load\"", ")", ";">> \o <<NL>> \o
    \* line 36
    Indent(12) \o <<"Ok", "(", "value", ")">> \o <<NL>> \o
    \* line 37
    Indent(8) \o <<"} else if let Some", "(", "func", ")", " = self.functions.get", "(", "var_name", ")", " {">> \o <<NL>> \o
    \* line 38
    Indent(12) \o <<"// function reference">> \o <<NL>> \o
    \* line 39
    Indent(12) \o <<"Ok", "(", "func.as_global_value", "(", ")", ".as_pointer_value", "(", ")", ".into", "(", ")", ")">> \o <<NL>> \o
    \* line 40
    Indent(8) \o <<"} else if let Some", "(", "global_var", ")", " = self.llvm_module.get_global", "(", "var_name", ")", " {">> \o <<NL>> \o
    \* line 41
    Indent(12) \o <<"// global variable or constant">> \o <<NL>> \o
    \* line 42
    Indent(12) \o <<"let value = self.builder.build_load", "(", "global_var.as_pointer_value", "(", ")", ",", " \"global_load\"", ")", ";">> \o <<NL>> \o
    \* line 43
    Indent(12) \o <<"Ok", "(", "value", ")">> \o <<NL>> \o
    \* line 44
    Indent(8) \o <<"} else {">> \o <<NL>> \o
    \* line 45
    Indent(12) \o <<"Err", "(", "CompilerError::new", "(", "ErrorKind::CodeGeneration", ",">> \o Indent(1) \o <<NL>> \o
    \* line 46
    Indent(16) \o <<"format!", "(", "\"undefined identifier '{}'\"", ",", " var_name", ")", ",">> \o <<NL>> \o
    \* line 47
    Indent(16) \o <<"ident.location.clone", "(", ")">> \o <<NL>> \o
    \* line 48
    Indent(12) \o <<")", ")">> \o <<NL>> \o
    \* line 49
    Indent(8) \o <<"}">> \o <<NL>> \o
    \* line 50
    Indent(4) \o <<"}">> \o <<NL>> \o
    \* line 51
    Indent(4) \o <<NL>>


\* lines 55-57: the list that is written; new_content is one element of it
new_lines(ls) == UpTo(ls, start_line) \o <<new_content>> \o From(ls, end_line)

\* lines 12-15
FIM_Backup ==
    /\ pc = "fim_backup"
    /\ fs' = WriteFile(fs, ManualBak, fs[ModRs])
    /\ io' = Logged(ManualBak, fs[ModRs])
    /\ pc' = "fim_read"
    /\ UNCHANGED <<all_files, file_index, original_content, rule, parked, changes_made, script, runs, target_file, content, lines, stack, problems, fs0>>

\* lines 19-20
FIM_Read ==
    /\ pc = "fim_read"
    /\ lines' = ReadLines(fs[ModRs])
    /\ pc' = "fim_write"
    /\ UNCHANGED <<all_files, file_index, original_content, rule, parked, changes_made, fs, script, runs, target_file, content, stack, problems, fs0, io>>

\* lines 55-61
FIM_Write ==
    /\ pc = "fim_write"
    /\ fs' = WriteFile(fs, ModRs, WriteLines(new_lines(lines)))
    /\ io' = Logged(ModRs, WriteLines(new_lines(lines)))
    /\ pc' = "done"
    /\ UNCHANGED <<all_files, file_index, original_content, rule, parked, changes_made, script, runs, target_file, content, lines, stack, problems, fs0>>

----------------------------------------------------------------------------
(* fix_scripts/fix_last_errors.py *)

Final2Bak == "crates/backups/manual/codegen.rs.final2.bak"

\* a byte that no UTF-8 text holds
BadByte == "<0xff>"

\* line 23: the index that is assigned, counted from 0
BooleanIndex == 125

\* line 23: the line that is assigned
BooleanArm ==
    Indent(12) \o <<"TypeKind::Primitive", "(", "PrimitiveType::Boolean", ")",
                    " => self.context.bool_type", "(", ")", ".into", "(", ")", ",", NL>>

Decodable(text) == \A i \in 1..Len(text) : text[i] # BadByte

\* line 13: open() raises when there is no codegen.rs
FLE_Missing ==
    /\ pc = "fle_backup"
    /\ CodegenRs \notin DOMAIN fs
    /\ pc' = "failed"
    /\ UNCHANGED <<all_files, file_index, original_content, rule, parked, changes_made, fs, script, runs, target_file, content, lines, stack, problems, fs0, io>>

\* lines 13-16
FLE_Backup ==
    /\ pc = "fle_backup"
    /\ CodegenRs \in DOMAIN fs
    /\ fs' = WriteFile(fs, Final2Bak, fs[CodegenRs])
    /\ io' = Logged(Final2Bak, fs[CodegenRs])
    /\ pc' = "fle_read"
    /\ UNCHANGED <<all_files, file_index, original_content, rule, parked, changes_made, script, runs, target_file, content, lines, stack, problems, fs0>>

\* lines 13-15 where the locale's encoding is UTF-8: the backup is opened for
\* writing (line 14), then src.read() raises (line 15)
FLE_BackupUndecodable ==
    /\ pc = "fle_backup"
    /\ CodegenRs \in DOMAIN fs
    /\ ~Decodable(fs[CodegenRs])
    /\ fs' = WriteFile(fs, Final2Bak, <<>>)
    /\ pc' = "failed"
    /\ UNCHANGED <<all_files, file_index, original_content, rule, parked, changes_made, script, runs, target_file, content, lines, stack, problems, fs0, io>>

\* lines 19-20
FLE_Read ==
    /\ pc = "fle_read"
    /\ Decodable(fs[CodegenRs])
    /\ lines' = ReadLines(fs[CodegenRs])
    /\ pc' = "fle_fix"
    /\ UNCHANGED <<all_files, file_index, original_content, rule, parked, changes_made, fs, script, runs, target_file, content, stack, problems, fs0, io>>

\* line 20: readlines() raises on a byte that is not UTF-8
FLE_Undecodable ==
    /\ pc = "fle_read"
    /\ ~Decodable(fs[CodegenRs])
    /\ pc' = "failed"
    /\ UNCHANGED <<all_files, file_index, original_content, rule, parked, changes_made, fs, script, runs, target_file, content, lines, stack, problems, fs0, io>>

FLE_IndexErrorTruncating ==
    /\ pc = "fle_fix"
    /\ Len(lines) <= BooleanIndex
    /\ fs' = WriteFile(fs, CodegenRs, <<>>)
    /\ pc' = "failed"
    /\ UNCHANGED <<all_files, file_index, original_content, rule, parked, changes_made, script, runs, target_file, content, lines, stack, problems, fs0, io>>

\* line 23: IndexError when the file has fewer than 126 lines
FLE_IndexError ==
    /\ pc = "fle_fix"
    /\ Len(lines) <= BooleanIndex
    /\ pc' = "failed"
    /\ UNCHANGED <<all_files, file_index, original_content, rule, parked, changes_made, fs, script, runs, target_file, content, lines, stack, problems, fs0, io>>

\* line 23
FLE_Fix ==
    /\ pc = "fle_fix"
    /\ Len(lines) > BooleanIndex
    /\ lines' = [lines EXCEPT ![BooleanIndex + 1] = BooleanArm]
    /\ pc' = "fle_write"
    /\ UNCHANGED <<all_files, file_index, original_content, rule, parked, changes_made, fs, script, runs, target_file, content, stack, problems, fs0, io>>

\* lines 26-27
FLE_Write ==
    /\ pc = "fle_write"
    /\ fs' = WriteFile(fs, CodegenRs, WriteLines(lines))
    /\ io' = Logged(CodegenRs, WriteLines(lines))
    /\ pc' = "done"
    /\ UNCHANGED <<all_files, file_index, original_content, rule, parked, changes_made, script, runs, target_file, content, lines, stack, problems, fs0>>

----------------------------------------------------------------------------
(* fix_scripts/fix_all_codegen_errors.py *)

WasmCodegenRs == "crates/swiftlight-compiler/src/backend/wasm/codegen.rs"
LoggerRs == "crates/swiftlight-compiler/src/utils/logger.rs"

\* lines 46-78: the fixes (line_num, old_content, new_content); None and ""
\* are both false where the code tests them (lines 32, 35) and are <<>> here
codegen_fixes == <<
    \* line 48
    [line_num |-> 125, old_content |-> <<"TypeKind::Primitive", "(", "PrimitiveType::Boolean">>,
     new_content |-> <<"TypeKind::Primitive", "(", "PrimitiveType::Boolean", ")">>],
    \* line 51
    [line_num |-> 130, old_content |-> <<"TypeKind::Primitive", "(", "PrimitiveType::Float", ")", " ", "{", " bits ", "}">>,
     new_content |-> <<"TypeKind::Primitive", "(", "PrimitiveType::Float", " ", "{", " bits ", "}", ")">>],
    \* line 54
    [line_num |-> 974, old_content |-> <<>>,
     new_content |-> Indent(12) \o <<"let default_value = match global_var.as_pointer_value", "(", ")", ".get_type", "(", ")", ".get_element_type", "(", ")", " ", "{">>],
    \* line 55
    [line_num |-> 975, old_content |-> <<>>,
     new_content |-> Indent(16) \o <<"AnyTypeEnum::IntType", "(", "int_ty", ")", " => int_ty.const_zero", "(", ")", ",">>],
    \* line 56
    [line_num |-> 976, old_content |-> <<>>,
     new_content |-> Indent(16) \o <<"AnyTypeEnum::FloatType", "(", "float_ty", ")", " => float_ty.const_zero", "(", ")", ",">>],
    \* line 57
    [line_num |-> 977, old_content |-> <<>>,
     new_content |-> Indent(16) \o <<"AnyTypeEnum::PointerType", "(", "ptr_ty", ")", " => ptr_ty.const_null", "(", ")", ",">>],
    \* line 58
    [line_num |-> 978, old_content |-> <<>>,
     new_content |-> Indent(16) \o <<"AnyTypeEnum::StructType", "(", "struct_ty", ")", " => struct_ty.const_zero", "(", ")", ",">>],
    \* line 59
    [line_num |-> 979, old_content |-> <<>>,
     new_content |-> Indent(16) \o <<"AnyTypeEnum::ArrayType", "(", "array_ty", ")", " => array_ty.const_zero", "(", ")", ",">>],
    \* line 62
    [line_num |-> 3530, old_content |-> <<"global.as_pointer_value", "(", ",", " ", "\"", "load", "\"", ")">>,
     new_content |-> <<"global.as_pointer_value", "(", ")", ",", " ", "\"", "load", "\"">>]>>

wasm_codegen_fixes == <<
    \* line 69
    [line_num |-> 175, old_content |-> <<"TypeKind::Primitive", "(", "PrimitiveType::Bool", ")", "ean">>,
     new_content |-> <<"TypeKind::Primitive", "(", "PrimitiveType::Boolean", ")">>]>>

logger_fixes == <<
    \* line 76
    [line_num |-> 199, old_content |-> <<"}">>,
     new_content |-> <<"}">>],
    \* line 77
    [line_num |-> 200, old_content |-> <<"}">>,
     new_content |-> <<>>]>>

\* lines 81-83: the three calls of fix_file; backup_path is line 18,
\* os.path.join(backup_dir, os.path.basename(file_path) + backup_suffix)
fix_file_calls == <<
    [file_path |-> CodegenRs, backup_path |-> "crates/backups/manual/codegen.rs.final1.bak",
     fixes |-> codegen_fixes],
    [file_path |-> WasmCodegenRs, backup_path |-> "crates/backups/manual/codegen.rs.final.bak",
     fixes |-> wasm_codegen_fixes],
    [file_path |-> LoggerRs, backup_path |-> "crates/backups/manual/logger.rs.final.bak",
     fixes |-> logger_fixes]>>

\* lines 30-36: one turn of the loop over fixes
ApplyLineFix(ls, f) ==
    IF 0 <= f.line_num /\ f.line_num < Len(ls)
    THEN IF f.old_content # <<>> /\ f.new_content # <<>>
         THEN [ls EXCEPT ![f.line_num + 1] = Replace(@, f.old_content, f.new_content)]
         ELSE IF f.old_content = <<>>
              THEN [ls EXCEPT ![f.line_num + 1] = f.new_content \o <<NL>>]
              ELSE ls
    ELSE ls

\* lines 29-36: the first k fixes applied in order
RECURSIVE ApplyLineFixes(_, _, _)
ApplyLineFixes(ls, fixlist, k) ==
    IF k = 0 THEN ls
    ELSE LET t == ApplyLineFixes(ls, fixlist, k - 1)
         IN  IF Len(t) >= 0 THEN ApplyLineFix(t, fixlist[k]) ELSE t

\* lines 81-83: the next call of fix_file
FACE_Call ==
    /\ pc = "face_call"
    /\ file_index < Len(fix_file_calls)
    /\ file_index' = file_index + 1
    /\ target_file' = fix_file_calls[file_index + 1].file_path
    /\ pc' = "face_backup"
    /\ UNCHANGED <<fs, script, runs, content, lines, stack, problems, fs0, io,
                   all_files, original_content, rule, parked, changes_made>>

\* line 85
FACE_End ==
    /\ pc = "face_call"
    /\ file_index = Len(fix_file_calls)
    /\ pc' = "done"
    /\ UNCHANGED <<fs, script, runs, target_file, content, lines, stack, problems, fs0, io,
                   all_files, file_index, original_content, rule, parked, changes_made>>

\* line 19: open() raises when the file does not exist
FACE_Missing ==
    /\ pc = "face_backup"
    /\ target_file \notin DOMAIN fs
    /\ pc' = "failed"
    /\ UNCHANGED <<fs, script, runs, target_file, content, lines, stack, problems, fs0, io,
                   all_files, file_index, original_content, rule, parked, changes_made>>

\* lines 18-22
FACE_Backup ==
    /\ pc = "face_backup"
    /\ target_file \in DOMAIN fs
    /\ fs' = WriteFile(fs, fix_file_calls[file_index].backup_path, fs[target_file])
    /\ io' = Logged(fix_file_calls[file_index].backup_path, fs[target_file])
    /\ pc' = "face_read"
    /\ UNCHANGED <<script, runs, target_file, content, lines, stack, problems, fs0,
                   all_files, file_index, original_content, rule, parked, changes_made>>

\* lines 25-26
FACE_Read ==
    /\ pc = "face_read"
    /\ lines' = ReadLines(fs[target_file])
    /\ pc' = "face_write"
    /\ UNCHANGED <<fs, script, runs, target_file, content, stack, problems, fs0, io,
                   all_files, file_index, original_content, rule, parked, changes_made>>

\* lines 29-42
FACE_Write ==
    /\ pc = "face_write"
    /\ LET fixlist == fix_file_calls[file_index].fixes
           fixed == ApplyLineFixes(lines, fixlist, Len(fixlist))
       IN  /\ lines' = fixed
           /\ fs' = WriteFile(fs, target_file, WriteLines(fixed))
           /\ io' = Logged(target_file, WriteLines(fixed))
    /\ pc' = "face_call"
    /\ UNCHANGED <<script, runs, target_file, content, stack, problems, fs0,
                   all_files, file_index, original_content, rule, parked, changes_made>>

----------------------------------------------------------------------------
(* fix_scripts/fix_optimization_trait.py *)

OptimizationRs == "crates/swiftlight-compiler/src/optimization.rs"
OptimizationBak == "crates/backups/optimization.rs.bak"

\* lines 27-31 (kind AST) and 47-51 (kind IR): the method text; the comment
\* is written in ASCII
ExecuteMethod(kind) ==
    <<NL>> \o Indent(4) \o <<"fn execute", "(", "&self", ")", " -> OptimizationPassResult", " ", "{", NL>>
      \o Indent(8) \o <<IF kind = "AST"
                       THEN "// this method is not called directly - run_on_ast is used"
                       ELSE "// this method is not called directly - run_on_ir is used", NL>>
      \o Indent(8) \o <<"OptimizationPassResult::new", "(", "false", ",",
                        " std::time::Duration::from_secs", "(", "0", ")", ")", NL>>
      \o Indent(4) \o <<"}">>

\* lines 22-73; the key "pattern" is read nowhere
implementations == <<
    [class |-> "ConstantFolding", kind |-> "AST", method |-> ExecuteMethod("AST")],
    [class |-> "DeadCodeElimination", kind |-> "AST", method |-> ExecuteMethod("AST")],
    [class |-> "CommonSubexpressionElimination", kind |-> "IR", method |-> ExecuteMethod("IR")],
    [class |-> "InstructionCombining", kind |-> "IR", method |-> ExecuteMethod("IR")],
    [class |-> "LoopOptimization", kind |-> "IR", method |-> ExecuteMethod("IR")]>>

\* line 78: the literal start of the pattern, and line 88: the same text in
\* the replacement
ImplFor(class_name) == <<"impl OptimizationPass for ", class_name, " ", "{">>

\* line 80: re.search(pattern, content, re.DOTALL) with (.*?)\} after the
\* literal start: the leftmost start, then the text up to the nearest "}".
\* <<>> when there is no match, else <<[first, last]>>, the positions of group 0
ImplSearch(text, class_name) ==
    LET starts == Occurrences(text, ImplFor(class_name))
    IN  IF starts = {} THEN <<>>
        ELSE LET i == Min(starts)
                 closers == {k \in (i + Len(ImplFor(class_name)))..Len(text) : text[k] = "}"}
             IN  IF closers = {} THEN <<>> ELSE <<[first |-> i, last |-> Min(closers)]>>

\* lines 76-91
add_execute_method(text, implementation) ==
    LET found == ImplSearch(text, implementation.class)
    IN  IF found # <<>>
        THEN LET match == found[1]
                 group0 == SubSeq(text, match.first, match.last)
                 impl_content == SubSeq(text, match.first + Len(ImplFor(implementation.class)),
                                        match.last - 1)
             IN  IF ~Contains(impl_content, <<"fn execute">>)
                 THEN [content |-> Replace(text, group0,
                                           ImplFor(implementation.class) \o impl_content
                                             \o implementation.method \o <<"}">>),
                       changed |-> TRUE]
                 ELSE [content |-> text, changed |-> FALSE]
        ELSE [content |-> text, changed |-> FALSE]

\* lines 15-19
FOT_Backup ==
    /\ pc = "fot_backup"
    /\ OptimizationRs \in DOMAIN fs
    /\ fs' = WriteFile(fs, OptimizationBak, fs[OptimizationRs])
    /\ io' = Logged(OptimizationBak, fs[OptimizationRs])
    /\ pc' = "fot_read"
    /\ UNCHANGED <<script, runs, target_file, content, lines, stack, problems, fs0,
                   all_files, file_index, original_content, rule, parked, changes_made>>

\* line 15: there is no file to copy
FOT_NoBackup ==
    /\ pc = "fot_backup"
    /\ OptimizationRs \notin DOMAIN fs
    /\ pc' = "fot_read"
    /\ UNCHANGED <<fs, script, runs, target_file, content, lines, stack, problems, fs0, io,
                   all_files, file_index, original_content, rule, parked, changes_made>>

\* lines 94-98
FOT_Read ==
    /\ pc = "fot_read"
    /\ OptimizationRs \in DOMAIN fs
    /\ content' = fs[OptimizationRs]
    /\ changes_made' = FALSE
    /\ rule' = 1
    /\ pc' = "fot_impls"
    /\ UNCHANGED <<fs, script, runs, target_file, lines, stack, problems, fs0, io,
                   all_files, file_index, original_content, parked>>

\* lines 94, 114-115
FOT_NotFound ==
    /\ pc = "fot_read"
    /\ OptimizationRs \notin DOMAIN fs
    /\ pc' = "done"
    /\ UNCHANGED <<fs, script, runs, target_file, content, lines, stack, problems, fs0, io,
                   all_files, file_index, original_content, rule, parked, changes_made>>

\* lines 101-105: one turn of the loop over implementations
FOT_Impl ==
    /\ pc = "fot_impls"
    /\ rule <= Len(implementations)
    /\ LET r == add_execute_method(content, implementations[rule])
       IN  /\ content' = r.content
           /\ changes_made' = (changes_made \/ r.changed)
    /\ rule' = rule + 1
    /\ UNCHANGED <<fs, script, pc, runs, target_file, lines, stack, problems, fs0, io,
                   all_files, file_index, original_content, parked>>

\* lines 108-111
FOT_Write ==
    /\ pc = "fot_impls"
    /\ rule > Len(implementations)
    /\ changes_made
    /\ fs' = WriteFile(fs, OptimizationRs, content)
    /\ io' = Logged(OptimizationRs, content)
    /\ pc' = "done"
    /\ UNCHANGED <<script, runs, target_file, content, lines, stack, problems, fs0,
                   all_files, file_index, original_content, rule, parked, changes_made>>

\* lines 108, 112-113
FOT_Same ==
    /\ pc = "fot_impls"
    /\ rule > Len(implementations)
    /\ ~changes_made
    /\ pc' = "done"
    /\ UNCHANGED <<fs, script, runs, target_file, content, lines, stack, problems, fs0, io,
                   all_files, file_index, original_content, rule, parked, changes_made>>

----------------------------------------------------------------------------
(* fix_inkwell.py *)

PreFix == "crates/swiftlight-compiler/src/middleend/ir/mod.rs.pre_fix"

\* line 12: build_struct_gep\(([^,]+),\s*([^,]+),\s*([^)]+)\)
InkwellGepPat ==
    <<Lit("build_struct_gep"), Lit("("), Open, Plus("notcomma"), Close, Lit(","), Star("space"),
      Open, Plus("notcomma"), Close, Lit(","), Star("space"),
      Open, Plus("notparen"), Close, Lit(")")>>
\* line 12: build_struct_gep(\2, \3)
InkwellGepTmpl ==
    <<Text("build_struct_gep"), Text("("), Group(2), Text(","), Text(" "), Group(3), Text(")")>>
\* line 15: build_load\(([^,]+),\s*([^)]+)\)
InkwellLoadPat ==
    <<Lit("build_load"), Lit("("), Open, Plus("notcomma"), Close, Lit(","), Star("space"),
      Open, Plus("notparen"), Close, Lit(")")>>
\* line 15: build_load(\2)
InkwellLoadTmpl == <<Text("build_load"), Text("("), Group(2), Text(")")>>

\* lines 12-15
InkwellFixed(text) == Sub(InkwellLoadPat, InkwellLoadTmpl, Sub(InkwellGepPat, InkwellGepTmpl, text))

\* line 5: cp mod.rs mod.rs.pre_fix
FIK_Backup ==
    /\ pc = "fik_backup"
    /\ fs' = WriteFile(fs, PreFix, fs[ModRs])
    /\ io' = Logged(PreFix, fs[ModRs])
    /\ pc' = "fik_read"
    /\ UNCHANGED <<script, runs, target_file, content, lines, stack, problems, fs0,
                   all_files, file_index, original_content, rule, parked, changes_made>>

\* lines 8-15
FIK_Read ==
    /\ pc = "fik_read"
    /\ content' = InkwellFixed(fs[ModRs])
    /\ pc' = "fik_write"
    /\ UNCHANGED <<fs, script, runs, target_file, lines, stack, problems, fs0, io,
                   all_files, file_index, original_content, rule, parked, changes_made>>

\* lines 18-19
FIK_Write ==
    /\ pc = "fik_write"
    /\ fs' = WriteFile(fs, ModRs, content)
    /\ io' = Logged(ModRs, content)
    /\ pc' = "done"
    /\ UNCHANGED <<script, runs, target_file, content, lines, stack, problems, fs0,
                   all_files, file_index, original_content, rule, parked, changes_made>>

----------------------------------------------------------------------------
(* fix_scripts/fix_struct_gep.py *)

GepBak == "crates/backups/manual/mod.rs.gep.bak"

\* lines 25-27: gep_error1
struct_gep_error1 ==
    Indent(8) \o <<"unsafe", " ", "{">> \o <<NL>> \o
    Indent(12) \o <<"let", " ", "field_ptr", " ", "=", " ", SB, "build_struct_gep", "(", "struct_name", ",", " ", "member.name", ")">> \o <<NL>> \o
    Indent(12) \o <<")", ".map_err", "(", "|e|", " ", "CompilerError::code_generation_error", "(">>

\* lines 29-31: gep_fix1
struct_gep_fix1 ==
    Indent(8) \o <<"unsafe", " ", "{">> \o <<NL>> \o
    Indent(12) \o <<"let", " ", "field_ptr", " ", "=", " ", SB, "build_struct_gep", "(", "struct_ptr", ",", " ", "field_idx", ",", " ", "&member.name", ")">> \o <<NL>> \o
    Indent(16) \o <<".map_err", "(", "|e|", " ", "CompilerError::new", "(", "ErrorKind::CodeGeneration", ",", " ">>

\* lines 34-36: gep_error2
struct_gep_error2 ==
    Indent(19) \o <<"let", " ", "field_ptr", " ", "=", " ", "unsafe", " ", "{">> \o <<NL>> \o
    Indent(40) \o <<SB, "build_struct_gep", "(", "field_name.name", ")">> \o <<NL>> \o
    Indent(40) \o <<")", "?">>

\* lines 38-40: gep_fix2
struct_gep_fix2 ==
    Indent(19) \o <<"let", " ", "field_ptr", " ", "=", " ", "unsafe", " ", "{">> \o <<NL>> \o
    Indent(40) \o <<SB, "build_struct_gep", "(", "struct_ptr", ",", " ", "field_idx", ",", " ", "&field_name.name", ")">> \o <<NL>> \o
    Indent(36) \o <<"}", "?">>


\* line 47: build_struct_gep\(([^,]+),\s*([^,]+),\s*([^,]+),\s*([^,\)]+)\)
gep_pattern ==
    <<Lit("build_struct_gep"), Lit("("), Open, Plus("notcomma"), Close, Lit(","), Star("space"),
      Open, Plus("notcomma"), Close, Lit(","), Star("space"),
      Open, Plus("notcomma"), Close, Lit(","), Star("space"),
      Open, Plus("notcommaparen"), Close, Lit(")")>>
\* line 48: build_struct_gep(\2, \3, \4)
GepTmpl ==
    <<Text("build_struct_gep"), Text("("), Group(2), Text(","), Text(" "), Group(3),
      Text(","), Text(" "), Group(4), Text(")")>>
\* line 51: build_struct_gep\(([^,]+),\s*([^,\)]+)\)
gep_pattern2 ==
    <<Lit("build_struct_gep"), Lit("("), Open, Plus("notcomma"), Close, Lit(","), Star("space"),
      Open, Plus("notcommaparen"), Close, Lit(")")>>
\* line 52: build_struct_gep(\1, 0, "\2")
GepTmpl2 ==
    <<Text("build_struct_gep"), Text("("), Group(1), Text(","), Text(" "), Text("0"),
      Text(","), Text(" "), Text("\""), Group(2), Text("\""), Text(")")>>

\* lines 43-52
StructGepFixed(text) ==
    Sub(gep_pattern2, GepTmpl2,
        Sub(gep_pattern, GepTmpl,
            Replace(Replace(text, struct_gep_error1, struct_gep_fix1),
                    struct_gep_error2, struct_gep_fix2)))

\* lines 13-17
FSG_Backup ==
    /\ pc = "fsg_backup"
    /\ fs' = WriteFile(fs, GepBak, fs[ModRs])
    /\ io' = Logged(GepBak, fs[ModRs])
    /\ pc' = "fsg_read"
    /\ UNCHANGED <<script, runs, target_file, content, lines, stack, problems, fs0,
                   all_files, file_index, original_content, rule, parked, changes_made>>

\* lines 20-21
FSG_Read ==
    /\ pc = "fsg_read"
    /\ content' = fs[ModRs]
    /\ pc' = "fsg_write"
    /\ UNCHANGED <<fs, script, runs, target_file, lines, stack, problems, fs0, io,
                   all_files, file_index, original_content, rule, parked, changes_made>>

\* lines 43-56
FSG_Write ==
    /\ pc = "fsg_write"
    /\ fs' = WriteFile(fs, ModRs, StructGepFixed(content))
    /\ io' = Logged(ModRs, StructGepFixed(content))
    /\ pc' = "done"
    /\ UNCHANGED <<script, runs, target_file, content, lines, stack, problems, fs0,
                   all_files, file_index, original_content, rule, parked, changes_made>>

----------------------------------------------------------------------------
(* fix_backend.py *)

\* line 5
BackendBak == "crates/swiftlight-compiler/src/backend/llvm/codegen.rs.final-bak"

\* line 48: build_load\s*\(\s*&format!\("([^"]+)"\)\s*\)
FormatLoadPat ==
    <<Lit("build_load"), Star("space"), Lit("("), Star("space"), Lit("&format!"), Lit("("),
      Lit("\""), Open, Plus("notquote"), Close, Lit("\""), Lit(")"), Star("space"), Lit(")")>>
\* line 49: build_load(thread_id, &format!("\1"))
FormatLoadTmpl ==
    <<Text("build_load"), Text("("), Text("thread_id"), Text(","), Text(" "), Text("&format!"),
      Text("("), Text("\""), Group(1), Text("\""), Text(")"), Text(")")>>

\* lines 22-54; the patterns of lines 26, 32 and 42 and the replacements of
\* lines 33 and 43 are those of fix_all_files, lines 34, 40, 54, 41 and 55
BackendLine(line) ==
    IF Contains(line, <<"build_struct_gep">>)
    THEN IF Search(FafGepFixed, line) THEN line ELSE Sub(FafGepPat, FafGepTmpl, line)
    ELSE IF Contains(line, <<"build_load">>)
         THEN Sub(FormatLoadPat, FormatLoadTmpl, Sub(FafLoadPat, FafLoadTmpl, line))
         ELSE line

fixed_lines(ls) == [i \in 1..Len(ls) |-> BackendLine(ls[i])]

\* lines 8-12, the backup does not exist yet
FBE_Backup ==
    /\ pc = "fbe_backup"
    /\ BackendBak \notin DOMAIN fs
    /\ fs' = WriteFile(fs, BackendBak, fs[CodegenRs])
    /\ io' = Logged(BackendBak, fs[CodegenRs])
    /\ pc' = "fbe_read"
    /\ UNCHANGED <<script, runs, target_file, content, lines, stack, problems, fs0,
                   all_files, file_index, original_content, rule, parked, changes_made>>

\* line 8, the backup exists
FBE_KeepBackup ==
    /\ pc = "fbe_backup"
    /\ BackendBak \in DOMAIN fs
    /\ pc' = "fbe_read"
    /\ UNCHANGED <<fs, script, runs, target_file, content, lines, stack, problems, fs0, io,
                   all_files, file_index, original_content, rule, parked, changes_made>>

\* lines 15-16
FBE_Read ==
    /\ pc = "fbe_read"
    /\ lines' = ReadLines(fs[CodegenRs])
    /\ pc' = "fbe_write"
    /\ UNCHANGED <<fs, script, runs, target_file, content, stack, problems, fs0, io,
                   all_files, file_index, original_content, rule, parked, changes_made>>

\* lines 19-58
FBE_Write ==
    /\ pc = "fbe_write"
    /\ fs' = WriteFile(fs, CodegenRs, WriteLines(fixed_lines(lines)))
    /\ io' = Logged(CodegenRs, WriteLines(fixed_lines(lines)))
    /\ pc' = "done"
    /\ UNCHANGED <<script, runs, target_file, content, lines, stack, problems, fs0,
                   all_files, file_index, original_content, rule, parked, changes_made>>

----------------------------------------------------------------------------
(* fix_complete.py *)

\* line 5
CompleteBak == "crates/swiftlight-compiler/src/middleend/ir/mod.rs.final-bak"

\* line 20: build_struct_gep\(([^,]+),\s*([^,]+),\s*([^,]+),\s*([^,\)]+)\)
pattern1 ==
    <<Lit("build_struct_gep"), Lit("("),
      Open, Plus("notcomma"), Close, Lit(","), Star("space"),
      Open, Plus("notcomma"), Close, Lit(","), Star("space"),
      Open, Plus("notcomma"), Close, Lit(","), Star("space"),
      Open, Plus("notcommaparen"), Close, Lit(")")>>
\* line 21: build_struct_gep(\3, \4)
replacement1 ==
    <<Text("build_struct_gep"), Text("("), Group(3), Text(","), Text(" "), Group(4), Text(")")>>

\* line 24: build_load\(([^,]+),\s*([^,]+),\s*([^,\)]+)\)
pattern2 ==
    <<Lit("build_load"), Lit("("),
      Open, Plus("notcomma"), Close, Lit(","), Star("space"),
      Open, Plus("notcomma"), Close, Lit(","), Star("space"),
      Open, Plus("notcommaparen"), Close, Lit(")")>>
\* line 25: build_load(\2, \3)
replacement2 ==
    <<Text("build_load"), Text("("), Group(2), Text(","), Text(" "), Group(3), Text(")")>>

\* line 28: build_load\("([^"]+)"\)
pattern3 ==
    <<Lit("build_load"), Lit("("), Lit("\""), Open, Plus("notquote"), Close, Lit("\""), Lit(")")>>
\* line 29: build_load(expr_ptr, "\1")
replacement3 ==
    <<Text("build_load"), Text("("), Text("expr_ptr"), Text(","), Text(" "),
      Text("\""), Group(1), Text("\""), Text(")")>>

\* lines 39-89; the comments and the message are written in ASCII
MatchTail ==
    \* line 39
    <<NL>> \o
    \* line 40
    Indent(28) \o <<"}">> \o <<NL>> \o
    \* line 41
    Indent(24) \o <<"}">> \o <<NL>> \o
    \* line 42
    Indent(20) \o <<"}">> \o <<NL>> \o
    \* line 43
    Indent(20) \o <<NL>> \o
    \* line 44
    Indent(20) \o <<"//", " ", "generate the pattern block">> \o <<NL>> \o
    \* line 45
    Indent(20) \o <<SB, "position_at_end", "(", "pattern_block", ")", ";">> \o <<NL>> \o
    \* line 46
    Indent(20) \o <<NL>> \o
    \* line 47
    Indent(20) \o <<"//", " ", "evaluate the body of the arm">> \o <<NL>> \o
    \* line 48
    Indent(20) \o <<"let", " ", "arm_result", " ", "=", " ", "self.generate_expression", "(", "arm_body", ")", "?;">> \o <<NL>> \o
    \* line 49
    Indent(20) \o <<NL>> \o
    \* line 50
    Indent(20) \o <<"//", " ", "branch to the merge block">> \o <<NL>> \o
    \* line 51
    Indent(20) \o <<SB, "build_unconditional_branch", "(", "merge_block", ")", ";">> \o <<NL>> \o
    \* line 52
    Indent(20) \o <<NL>> \o
    \* line 53
    Indent(20) \o <<"//", " ", "record the current block and value for the PHI node">> \o <<NL>> \o
    \* line 54
    Indent(20) \o <<"incoming_values.push", "(", "arm_result", ")", ";">> \o <<NL>> \o
    \* line 55
    Indent(20) \o <<"incoming_blocks.push", "(", SB, "get_insert_block", "(", ")", ".unwrap", "(", ")", ")", ";">> \o <<NL>> \o
    \* line 56
    Indent(20) \o <<NL>> \o
    \* line 57
    Indent(20) \o <<"//", " ", "move to the next block">> \o <<NL>> \o
    \* line 58
    Indent(20) \o <<"current_block", " ", "=", " ", "next_pattern_block;">> \o <<NL>> \o
    \* line 59
    Indent(16) \o <<"}">> \o <<NL>> \o
    \* line 60
    Indent(16) \o <<NL>> \o
    \* line 61
    Indent(16) \o <<"//", " ", "generate the default block: nothing matched">> \o <<NL>> \o
    \* line 62
    Indent(16) \o <<SB, "position_at_end", "(", "default_block", ")", ";">> \o <<NL>> \o
    \* line 63
    Indent(16) \o <<NL>> \o
    \* line 64
    Indent(16) \o <<"//", " ", "default: return an error">> \o <<NL>> \o
    \* line 65
    Indent(16) \o <<"let", " ", "error_msg", " ", "=", " ", "\"", "no pattern matched", "\"", ";">> \o <<NL>> \o
    \* line 66
    Indent(16) \o <<"let", " ", "err_result", " ", "=", " ", "self.build_runtime_error", "(", "error_msg", ",", " ", "None", ")", "?;">> \o <<NL>> \o
    \* line 67
    Indent(16) \o <<SB, "build_unreachable", "(", ")", ";">> \o <<NL>> \o
    \* line 68
    Indent(16) \o <<NL>> \o
    \* line 69
    Indent(16) \o <<"//", " ", "generate the merge block">> \o <<NL>> \o
    \* line 70
    Indent(16) \o <<SB, "position_at_end", "(", "merge_block", ")", ";">> \o <<NL>> \o
    \* line 71
    Indent(16) \o <<NL>> \o
    \* line 72
    Indent(16) \o <<"//", " ", "a PHI node is needed">> \o <<NL>> \o
    \* line 73
    Indent(16) \o <<"if", " ", "incoming_values.len", "(", ")", " ", ">", " ", "0", " ", "{">> \o <<NL>> \o
    \* line 74
    Indent(20) \o <<"let", " ", "result_type", " ", "=", " ", "incoming_values[0].get_type", "(", ")", ";">> \o <<NL>> \o
    \* line 75
    Indent(20) \o <<"let", " ", "phi", " ", "=", " ", SB, "build_phi", "(", "result_type", ",", " ", "\"", "matchresult", "\"", ")", ";">> \o <<NL>> \o
    \* line 76
    Indent(20) \o <<NL>> \o
    \* line 77
    Indent(20) \o <<"for", " ", "(", "i", ",", " ", "value", ")", " ", "in", " ", "incoming_values.iter", "(", ")", ".enumerate", "(", ")", " ", "{">> \o <<NL>> \o
    \* line 78
    Indent(24) \o <<"phi.add_incoming", "(", "&[", "(", "&value", ",", " ", "incoming_blocks[i]", ")", "]", ")", ";">> \o <<NL>> \o
    \* line 79
    Indent(20) \o <<"}">> \o <<NL>> \o
    \* line 80
    Indent(20) \o <<NL>> \o
    \* line 81
    Indent(20) \o <<"Ok", "(", "phi.as_basic_value", "(", ")", ")">> \o <<NL>> \o
    \* line 82
    Indent(16) \o <<"}", " ", "else", " ", "{">> \o <<NL>> \o
    \* line 83
    Indent(20) \o <<"//", " ", "every arm is an error: return some value that is never used">> \o <<NL>> \o
    \* line 84
    Indent(20) \o <<"Ok", "(", "self.context.i32_type", "(", ")", ".const_zero", "(", ")", ".into", "(", ")", ")">> \o <<NL>> \o
    \* line 85
    Indent(16) \o <<"}">> \o <<NL>> \o
    \* line 86
    Indent(12) \o <<"}">> \o <<NL>> \o
    \* line 87
    Indent(8) \o <<"}">> \o <<NL>> \o
    \* line 88
    Indent(4) \o <<"}">> \o <<NL>> \o
    \* line 89
    <<"}">>

\* lines 32-89
modified_content(text) ==
    LET m == Sub(pattern3, replacement3, Sub(pattern2, replacement2, Sub(pattern1, replacement1, text)))
    IN  IF ~EndsWith(Strip(m), <<"}">>) THEN m \o MatchTail ELSE m

\* lines 8-12, the backup does not exist yet
FCP_Backup ==
    /\ pc = "fcp_backup"
    /\ CompleteBak \notin DOMAIN fs
    /\ fs' = WriteFile(fs, CompleteBak, fs[ModRs])
    /\ io' = Logged(CompleteBak, fs[ModRs])
    /\ pc' = "fcp_read"
    /\ UNCHANGED <<script, runs, target_file, content, lines, stack, problems, fs0,
                   all_files, file_index, original_content, rule, parked, changes_made>>

\* the backup written on every run, as without the test of line 8
FCP_KeepBackupCopying ==
    /\ pc = "fcp_backup"
    /\ CompleteBak \in DOMAIN fs
    /\ fs' = WriteFile(fs, CompleteBak, fs[ModRs])
    /\ io' = Logged(CompleteBak, fs[ModRs])
    /\ pc' = "fcp_read"
    /\ UNCHANGED <<script, runs, target_file, content, lines, stack, problems, fs0,
                   all_files, file_index, original_content, rule, parked, changes_made>>

\* line 8, the backup exists
FCP_KeepBackup ==
    /\ pc = "fcp_backup"
    /\ CompleteBak \in DOMAIN fs
    /\ pc' = "fcp_read"
    /\ UNCHANGED <<fs, script, runs, target_file, content, lines, stack, problems, fs0, io,
                   all_files, file_index, original_content, rule, parked, changes_made>>

\* lines 15-16
FCP_Read ==
    /\ pc = "fcp_read"
    /\ content' = fs[ModRs]
    /\ pc' = "fcp_write"
    /\ UNCHANGED <<fs, script, runs, target_file, lines, stack, problems, fs0, io,
                   all_files, file_index, original_content, rule, parked, changes_made>>

\* lines 32-93
FCP_Write ==
    /\ pc = "fcp_write"
    /\ fs' = WriteFile(fs, ModRs, modified_content(content))
    /\ io' = Logged(ModRs, modified_content(content))
    /\ pc' = "done"
    /\ UNCHANGED <<script, runs, target_file, content, lines, stack, problems, fs0,
                   all_files, file_index, original_content, rule, parked, changes_made>>

----------------------------------------------------------------------------
(* fix_scripts/fix_mod_rs_syntax.py *)

\* line 13
ModSyntaxBak == "crates/backups/manual/mod.rs.syntax.bak"

QLoad == "\"load\""

\* lines 24-30: a line that begins with four spaces and a closing brace is
\* replaced, whole, by a closing brace and a newline
modified_lines(ls) ==
    [i \in 1..Len(ls) |-> IF StartsWith(ls[i], Indented) THEN <<"}", NL>> ELSE ls[i]]

\* line 40: let value = self\.builder\.build_load\(([^,]+)(?:, "load")?\);
load_pattern ==
    <<Lit(LetValue), Lit(SB), Lit("build_load"), Lit("("), Open, Plus("notcomma"), Close,
      Opt(3), Lit(","), Lit(" "), Lit(QLoad), Lit(")"), Lit(";")>>
\* line 41: let value = self.builder.build_load(\1, "load");
LoadTmpl ==
    <<Text(LetValue), Text(SB), Text("build_load"), Text("("), Group(1), Text(","), Text(" "),
      Text(QLoad), Text(")"), Text(";")>>

\* line 43: self\.builder\.build_struct_gep\(([^,]+), ([^,]+), ([^,]+), ([^\)]+)\)
syntax_gep_pattern ==
    <<Lit(SB), Lit("build_struct_gep"), Lit("("),
      Open, Plus("notcomma"), Close, Lit(","), Lit(" "),
      Open, Plus("notcomma"), Close, Lit(","), Lit(" "),
      Open, Plus("notcomma"), Close, Lit(","), Lit(" "),
      Open, Plus("notparen"), Close, Lit(")")>>
\* line 44: self.builder.build_struct_gep(\2, \3, \4)
SyntaxGepTmpl ==
    <<Text(SB), Text("build_struct_gep"), Text("("), Group(2), Text(","), Text(" "),
      Group(3), Text(","), Text(" "), Group(4), Text(")")>>

\* lines 47-61: the texts str.replace looks for are raw strings written as
\* regular expressions, so they hold the backslashes; the fix of line 48
\* holds a backslash and an n, not a newline; the comments of lines 53 and
\* 59 are written in ASCII
match_expr_error ==
    <<LetExprValue, "self", "\\", ".builder", "\\", ".", "build_load", "\\", "(",
      "lit_value", ",", " ", QLoad, "\\", ")", " ", "\\", "{">>

match_expr_fix ==
    <<LetExprValue, SB, "build_load", "(", "lit_value", ",", " ", QLoad, ")", ";", "\\",
      "n", " ", " ", " ", " ", " ", " ", " ", " ", " ", " ", " ", " ", " ", " ", " ", " ",
      " ", " ", " ", " ", "let", " ", "cond", " ", "=", " ", "match", " ", "(",
      "expr_value", ",", " ", "lit_value", ")", " ", "{">>

struct_field_error ==
    <<LetValue, "self", "\\", ".builder", "\\", ".", "build_load", "\\", "(",
      "struct_name:", " ", "&str", ",", " ", "field_name:", " ", "&str", "\\", ")", " ",
      "->", " ", "Option<usize>", " ", "\\", "{">>

struct_field_fix ==
    <<" ", " ", " ", " ", "///", " ", "find the index of a struct field", NL, " ", " ",
      " ", " ", "fn", " ", "find_struct_field_index", "(", "&self", ",", " ",
      "struct_name:", " ", "&str", ",", " ", "field_name:", " ", "&str", ")", " ", "->",
      " ", "Option<usize>", " ", "{">>

array_elements_error ==
    <<LetValue, "self", "\\", ".builder", "\\", ".", "build_load", "\\", "(", "elements:",
      " ", "&", "\\", "[Expression", "\\", "]", ",", " ", QLoad, "\\", ")", " ", "->", " ",
      "Result<BasicValueEnum<", "\\", "'ctx>>", " ", "\\", "{">>

array_elements_fix ==
    <<" ", " ", " ", " ", "///", " ", "generate the array element literals", NL, " ", " ",
      " ", " ", "fn", " ", "generate_array_elements", "(", "&self", ",", " ", "elements:",
      " ", "&[Expression]", ")", " ", "->", " ", "Result<BasicValueEnum<'ctx>>", " ", "{">>

\* lines 64-70: the five variants of AnyTypeEnum::from\(BasicTypeEnum::XType\(t\) => (.*?)\)
\* and AnyTypeEnum::XType(t) => \1; (.*?)\) ends at the first ")" of the line
match_patterns ==
    [k \in 1..5 |->
        LET basic == <<"BasicTypeEnum::IntType", "BasicTypeEnum::FloatType",
                       "BasicTypeEnum::PointerType", "BasicTypeEnum::StructType",
                       "BasicTypeEnum::ArrayType">>[k]
            any == <<"AnyTypeEnum::IntType", "AnyTypeEnum::FloatType",
                     "AnyTypeEnum::PointerType", "AnyTypeEnum::StructType",
                     "AnyTypeEnum::ArrayType">>[k]
        IN  [pattern |-> <<Lit("AnyTypeEnum::from"), Lit("("), Lit(basic), Lit("("), Lit("t"),
                           Lit(")"), Lit(" "), Lit("=>"), Lit(" "),
                           Open, Star("notparennl"), Close, Lit(")")>>,
             replacement |-> <<Text(any), Text("("), Text("t"), Text(")"), Text(" "),
                               Text("=>"), Text(" "), Group(1)>>]]

\* lines 72-73
RECURSIVE MatchPatternsApplied(_, _)
MatchPatternsApplied(text, k) ==
    IF k = 0 THEN text
    ELSE LET t == MatchPatternsApplied(text, k - 1)
         IN  IF Len(t) >= 0 THEN Sub(match_patterns[k].pattern, match_patterns[k].replacement, t)
             ELSE t

\* lines 40-73
ModSyntaxFixed(text) ==
    MatchPatternsApplied(
        Replace(Replace(Replace(Sub(syntax_gep_pattern, SyntaxGepTmpl,
                                    Sub(load_pattern, LoadTmpl, text)),
                                match_expr_error, match_expr_fix),
                        struct_field_error, struct_field_fix),
                array_elements_error, array_elements_fix),
        Len(match_patterns))

\* lines 14-17
FMS_Backup ==
    /\ pc = "fms_backup"
    /\ fs' = WriteFile(fs, ModSyntaxBak, fs[ModRs])
    /\ io' = Logged(ModSyntaxBak, fs[ModRs])
    /\ pc' = "fms_read"
    /\ UNCHANGED <<script, runs, target_file, content, lines, stack, problems, fs0,
                   all_files, file_index, original_content, rule, parked, changes_made>>

\* lines 20-21
FMS_Read ==
    /\ pc = "fms_read"
    /\ lines' = ReadLines(fs[ModRs])
    /\ pc' = "fms_indent"
    /\ UNCHANGED <<fs, script, runs, target_file, content, stack, problems, fs0, io,
                   all_files, file_index, original_content, rule, parked, changes_made>>

\* lines 24-36
FMS_Indent ==
    /\ pc = "fms_indent"
    /\ content' = WriteLines(modified_lines(lines))
    /\ pc' = "fms_write"
    /\ UNCHANGED <<fs, script, runs, target_file, lines, stack, problems, fs0, io,
                   all_files, file_index, original_content, rule, parked, changes_made>>

\* lines 40-77
FMS_Write ==
    /\ pc = "fms_write"
    /\ fs' = WriteFile(fs, ModRs, ModSyntaxFixed(content))
    /\ io' = Logged(ModRs, ModSyntaxFixed(content))
    /\ pc' = "done"
    /\ UNCHANGED <<script, runs, target_file, content, lines, stack, problems, fs0,
                   all_files, file_index, original_content, rule, parked, changes_made>>

----------------------------------------------------------------------------
(* fix_missing_brackets_modeule.py *)

\* line 9
FinalBak == "crates/swiftlight-compiler/src/middleend/ir/mod.rs.final"

\* line 18
KeepLines == 2167

\* lines 21-28
CloserLines ==
    <<Indent(28) \o <<"}", ";", NL>>, Indent(24) \o <<"}", NL>>, Indent(20) \o <<"}", NL>>,
      Indent(16) \o <<"}", NL>>, Indent(12) \o <<"}", NL>>, Indent(8) \o <<"}", NL>>,
      Indent(4) \o <<"}", NL>>, <<"}", NL>>>>

\* lines 18-28
Truncated(ls) == UpTo(ls, KeepLines) \o CloserLines

\* line 10: shutil.copy2
FMM_Backup ==
    /\ pc = "fmm_backup"
    /\ fs' = WriteFile(fs, FinalBak, fs[ModRs])
    /\ io' = Logged(FinalBak, fs[ModRs])
    /\ pc' = "fmm_read"
    /\ UNCHANGED <<script, runs, target_file, content, lines, stack, problems, fs0,
                   all_files, file_index, original_content, rule, parked, changes_made>>

\* lines 14-15
FMM_Read ==
    /\ pc = "fmm_read"
    /\ lines' = ReadLines(fs[ModRs])
    /\ pc' = "fmm_write"
    /\ UNCHANGED <<fs, script, runs, target_file, content, stack, problems, fs0, io,
                   all_files, file_index, original_content, rule, parked, changes_made>>

\* lines 18-32
FMM_Write ==
    /\ pc = "fmm_write"
    /\ fs' = WriteFile(fs, ModRs, WriteLines(Truncated(lines)))
    /\ io' = Logged(ModRs, WriteLines(Truncated(lines)))
    /\ pc' = "done"
    /\ UNCHANGED <<script, runs, target_file, content, lines, stack, problems, fs0,
                   all_files, file_index, original_content, rule, parked, changes_made>>

----------------------------------------------------------------------------
(* Runs *)

\* the pieces initial texts are made of
Fragments == {<<"{">>, <<"}">>, <<NL>>, <<" ">>, <<"\"">>, Indented, <<ImplHdr>>}

RECURSIVE TextsOf(_)
TextsOf(n) ==
    IF n = 0 THEN {<<>>}
    ELSE LET shorter == TextsOf(n - 1)
         IN  shorter \cup {t \o f : t \in shorter, f \in Fragments}

\* short files
Texts == TextsOf(MaxFrags)

\* files long enough for check_brackets' line range: 860 empty lines, then a tail
Pad == Repeat(<<NL>>, FirstFixIndex)
LongTexts == {Pad \o t : t \in TextsOf(MaxTail)}

FirstStep == [fix_impl_brackets |-> "fib_backup",
              fix_missing_brackets |-> "fmb_backup",
              check_brackets |-> "cb_read",
              fix_codegen_rs |-> "fcr_backup",
              fix_all_files |-> "faf_backup",
              fix_type_specialization |-> "fts_read",
              fix_additional_gep |-> "fag_backup",
              fix_ast |-> "fa_glob",
              fix_inkwell2 |-> "fi2_backup",
              fix_syntax_errors |-> "fse_loop",
              fix_ir_mod |-> "fim_backup",
              fix_last_errors |-> "fle_backup",
              fix_all_codegen_errors |-> "face_call",
              fix_optimization_trait |-> "fot_backup",
              fix_inkwell |-> "fik_backup",
              fix_struct_gep |-> "fsg_backup",
              fix_backend |-> "fbe_backup",
              fix_complete |-> "fcp_backup",
              fix_mod_rs_syntax |-> "fms_backup",
              fix_missing_brackets_modeule |-> "fmm_backup"]

\* the file a script names first
FirstTarget == [fix_impl_brackets |-> ModRs,
                fix_missing_brackets |-> ModRs,
                check_brackets |-> ModRs,
                fix_codegen_rs |-> CodegenRs,
                fix_all_files |-> target_files[1],
                fix_type_specialization |-> TypeSpecRs,
                fix_additional_gep |-> ModRs,
                fix_ast |-> "none",
                fix_inkwell2 |-> ModRs,
                fix_syntax_errors |-> "none",
                fix_ir_mod |-> ModRs,
                fix_last_errors |-> CodegenRs,
                fix_all_codegen_errors |-> "none",
                fix_optimization_trait |-> OptimizationRs,
                fix_inkwell |-> ModRs,
                fix_struct_gep |-> ModRs,
                fix_backend |-> CodegenRs,
                fix_complete |-> ModRs,
                fix_mod_rs_syntax |-> ModRs,
                fix_missing_brackets_modeule |-> ModRs]

\* the variables of a process that runs no script yet
Fresh == [script |-> "none", pc |-> "idle", target_file |-> "none", content |-> <<>>,
          lines |-> <<>>, stack |-> <<>>, problems |-> <<>>, fs0 |-> <<>>, io |-> <<>>,
          all_files |-> <<>>, file_index |-> 0, original_content |-> <<>>, rule |-> 0,
          changes_made |-> FALSE]

\* the initial states in which the file system is one of files
InitFs(files) ==
    /\ fs \in files
    /\ script = "none"
    /\ pc = "idle"
    /\ runs = 0
    /\ target_file = "none"
    /\ content = <<>>
    /\ lines = <<>>
    /\ stack = <<>>
    /\ problems = <<>>
    /\ fs0 = fs
    /\ io = <<>>
    /\ all_files = <<>>
    /\ file_index = 0
    /\ original_content = <<>>
    /\ rule = 0
    /\ changes_made = FALSE
    /\ parked = Fresh

\* script s is started; its variables are fresh
Start(s) ==
    /\ pc \in {"idle", "done", "failed"}
    /\ runs < MaxRuns
    /\ script' = s
    /\ pc' = FirstStep[s]
    /\ runs' = runs + 1
    /\ target_file' = FirstTarget[s]
    /\ content' = <<>>
    /\ lines' = <<>>
    /\ stack' = <<>>
    /\ problems' = <<>>
    /\ fs0' = fs
    /\ io' = <<>>
    /\ all_files' = <<>>
    /\ file_index' = 0
    /\ original_content' = <<>>
    /\ rule' = 0
    /\ changes_made' = FALSE
    /\ UNCHANGED <<fs, parked>>

\* the process that is running is suspended and the other one goes on: the
\* scripts take no lock, so this can happen between any two of their steps
Switch ==
    /\ parked' = [script |-> script,
                pc |-> pc,
                target_file |-> target_file,
                content |-> content,
                lines |-> lines,
                stack |-> stack,
                problems |-> problems,
                fs0 |-> fs0,
                io |-> io,
                all_files |-> all_files,
                file_index |-> file_index,
                original_content |-> original_content,
                rule |-> rule,
                changes_made |-> changes_made]
    /\ script' = parked.script
    /\ pc' = parked.pc
    /\ target_file' = parked.target_file
    /\ content' = parked.content
    /\ lines' = parked.lines
    /\ stack' = parked.stack
    /\ problems' = parked.problems
    /\ fs0' = parked.fs0
    /\ io' = parked.io
    /\ all_files' = parked.all_files
    /\ file_index' = parked.file_index
    /\ original_content' = parked.original_content
    /\ rule' = parked.rule
    /\ changes_made' = parked.changes_made
    /\ UNCHANGED <<fs, runs>>

(* Runs of the three bracket scripts on short files.  check_brackets' repair *)
(* (lines 81-102) needs a file of more than 860 lines: see SpecLong.         *)
Init == InitFs({[p \in {ModRs} |-> t] : t \in Texts})

Next ==
    \/ \E s \in {"fix_impl_brackets", "fix_missing_brackets", "check_brackets"} : Start(s)
    \/ FIB_Backup \/ FIB_Read \/ FIB_Append \/ FIB_Strip \/ FIB_Indent \/ FIB_Manual
    \/ FMB_Backup \/ FMB_Read \/ FMB_Append \/ FMB_Closed
    \/ CB_Read \/ CB_Scan \/ CB_Clean \/ CB_NoFix

Spec == Init /\ [][Next]_vars

(* Runs of check_brackets on long files *)
InitLong == InitFs({[p \in {ModRs} |-> t] : t \in LongTexts})

NextLong ==
    \/ Start("check_brackets")
    \/ CB_Read \/ CB_Scan \/ CB_Clean \/ CB_NoFix \/ CB_Fix \/ CB_Backup \/ CB_Write

SpecLong == InitLong /\ [][NextLong]_vars

(* Runs of the two scripts that rewrite calls, on mod.rs and codegen.rs *)
Gep4 == <<SB, "build_struct_gep", "(", "ty", ",", " ", "ptr", ",", " ", "0", ",", " ", "name", ")">>
Gep2 == <<SB, "build_struct_gep", "(", "0", ",", " ", "name", ")">>
Load3 == <<SB, "build_load", "(", "ty", ",", " ", "ptr", ",", " ", "name", ")">>
Load2 == <<SB, "build_load", "(", "ptr", ",", " ", "name", ")">>
CallFragments == {Gep4, Gep2, Load3, Load2, <<NL>>, <<",", " ", "name", ")">>}

RECURSIVE CallTexts(_)
CallTexts(n) ==
    IF n = 0 THEN {<<>>}
    ELSE {t \o f : t \in CallTexts(n - 1), f \in CallFragments}

\* the two files hold at most MaxCalls fragments together
CallFiles ==
    UNION {{[p \in {ModRs, CodegenRs} |-> IF p = ModRs THEN m ELSE c] :
               m \in CallTexts(ij[1]), c \in CallTexts(ij[2])} :
           ij \in {x \in (0..MaxCalls) \X (0..MaxCalls) : x[1] + x[2] <= MaxCalls}}

InitCalls == InitFs(CallFiles)

NextCalls ==
    \/ \E s \in {"fix_codegen_rs", "fix_all_files"} : Start(s)
    \/ FCR_Backup \/ FCR_Read \/ FCR_Write
    \/ FAF_Backup \/ FAF_KeepBackup \/ FAF_Read \/ FAF_Write

SpecCalls == InitCalls /\ [][NextCalls]_vars

(* Runs of fix_additional_gep and fix_impl_brackets on files that may hold *)
(* the two faulty calls and the impl block                                  *)
ImplBlock == <<ImplHdr, "{">> \o Indented \o <<NL, "}">>
GepFragments ==
    {<<"{">>, <<"}">>, <<NL>>, <<" ">>, gep_error1, gep_error2, gep_fix1, ImplBlock}

RECURSIVE GepTexts(_)
GepTexts(n) ==
    IF n = 0 THEN {<<>>}
    ELSE LET shorter == GepTexts(n - 1)
         IN  shorter \cup {t \o f : t \in shorter, f \in GepFragments}

InitGep == InitFs({[p \in {ModRs} |-> t] : t \in GepTexts(MaxFrags)})

NextGep ==
    \/ \E s \in {"fix_additional_gep", "fix_impl_brackets"} : Start(s)
    \/ FAG_Backup \/ FAG_Read \/ FAG_Write
    \/ FIB_Backup \/ FIB_Read \/ FIB_Append \/ FIB_Strip \/ FIB_Indent \/ FIB_Manual

SpecGep == InitGep /\ [][NextGep]_vars

(* Runs of fix_ast on one or two Rust files *)
AstFragments ==
    {<<"TypeKind::", "Int">>, <<"ersection">>, <<"DeclarationKind::", "Function">>, <<NL>>,
     <<"CompilerError::code_generation_error", "(", "a", ",", " ", "b", ")">>}

RECURSIVE AstTexts(_)
AstTexts(n) ==
    IF n = 0 THEN {<<>>}
    ELSE LET shorter == AstTexts(n - 1)
         IN  shorter \cup {t \o f : t \in shorter, f \in AstFragments}

\* mod.rs alone, or with a second file of the same or of another name
AstFiles ==
    {[p \in {ModRs} |-> t] : t \in AstTexts(MaxAst)}
      \cup UNION {{[p \in {ModRs, q} |-> IF p = ModRs THEN m ELSE c] :
                     m \in AstTexts(ij[1]), c \in AstTexts(ij[2])} :
                  q \in {SemanticModRs, CodegenRs},
                  ij \in {x \in (0..MaxAst) \X (0..MaxAst) : x[1] + x[2] <= MaxAst}}

InitAst == InitFs(AstFiles)

NextAst ==
    \/ Start("fix_ast")
    \/ FA_Glob \/ FA_Backup \/ FA_Read \/ FA_Rule \/ FA_Write \/ FA_Same

SpecAst == InitAst /\ [][NextAst]_vars

(* Runs of the two scripts that loop over a list of rules: fix_ast and      *)
(* fix_inkwell2                                                             *)
Inkwell2Fragments ==
    {<<LetValue, SB, "build_load", "(", IndexLoad, ")", ";">>,
     <<LetValue, SB, "build_load", "(", "ty", ",", " ", "ptr", ",", " ", "name", ")">>,
     <<LetFieldPtr, SB, "build_struct_gep", "(", "ty", ",", NL, "ptr", ",", " ", "0", ",", " ",
       "name", ")">>,
     <<LetFieldPtr, SB, "build_struct_gep", "(", "ty", ",", " ", NL>>,
     <<"build_struct_gep", "(", "idx as u32", ",", " ", "&format!", "(", FormatPtr, ",", " ",
       "field_name.name", ")">>,
     <<NL>>}

RECURSIVE Inkwell2Texts(_)
Inkwell2Texts(n) ==
    IF n = 0 THEN {<<>>}
    ELSE LET shorter == Inkwell2Texts(n - 1)
         IN  shorter \cup {t \o f : t \in shorter, f \in Inkwell2Fragments}

InitRules == InitFs({[p \in {ModRs} |-> t] : t \in AstTexts(MaxAst) \cup Inkwell2Texts(MaxAst)})

NextRules ==
    \/ \E s \in {"fix_ast", "fix_inkwell2"} : Start(s)
    \/ FA_Glob \/ FA_Backup \/ FA_Read \/ FA_Rule \/ FA_Write \/ FA_Same
    \/ FI2_Backup \/ FI2_KeepBackup \/ FI2_Read \/ FI2_Fix \/ FI2_Write

SpecRules == InitRules /\ [][NextRules]_vars

(* Runs of the two scripts that write a file only when a rule changed it: *)
(* fix_ast and fix_syntax_errors                                           *)
Ersection ==
    <<"TypeKind::", "Primitive(PrimitiveType::", "Int", ")", "ersection", "(", "types", ")">>
SyntaxFragments ==
    {<<"TypeKind::", "Int">>, <<"ersection", "(", "types", ")">>, Ersection, problematic_code,
     <<NL>>}

RECURSIVE SyntaxTexts(_)
SyntaxTexts(n) ==
    IF n = 0 THEN {<<>>}
    ELSE LET shorter == SyntaxTexts(n - 1)
         IN  shorter \cup {t \o f : t \in shorter, f \in SyntaxFragments}

\* mod.rs alone, or with name_resolver.rs
SyntaxFiles ==
    {[p \in {ModRs} |-> t] : t \in SyntaxTexts(MaxAst)}
      \cup UNION {{[p \in {ModRs, NameResolverRs} |-> IF p = ModRs THEN m ELSE c] :
                     m \in SyntaxTexts(ij[1]), c \in SyntaxTexts(ij[2])} :
                  ij \in {x \in (0..MaxAst) \X (0..MaxAst) : x[1] + x[2] <= MaxAst}}

InitSyntax == InitFs(SyntaxFiles)

NextSyntax ==
    \/ \E s \in {"fix_ast", "fix_syntax_errors"} : Start(s)
    \/ FA_Glob \/ FA_Backup \/ FA_Read \/ FA_Rule \/ FA_Write \/ FA_Same
    \/ FSE_Missing \/ FSE_Found \/ FSE_End \/ FSE_Backup \/ FSE_Read \/ FSE_Write \/ FSE_Same

SpecSyntax == InitSyntax /\ [][NextSyntax]_vars

(* Runs of fix_ir_mod on files shorter than its line range, reaching into *)
(* it, and longer                                                         *)
IrPads == {0, start_line, end_line}
IrTexts == {Repeat(<<NL>>, n) \o t : n \in IrPads, t \in TextsOf(MaxTail)}

InitIrMod == InitFs({[p \in {ModRs} |-> t] : t \in IrTexts})

NextIrMod ==
    \/ Start("fix_ir_mod")
    \/ FIM_Backup \/ FIM_Read \/ FIM_Write

SpecIrMod == InitIrMod /\ [][NextIrMod]_vars

(* Runs of fix_last_errors where codegen.rs is missing, is shorter than   *)
(* 126 lines, or is longer; the file may hold a byte that is not UTF-8    *)
LastFragments == {<<NL>>, <<"}">>, <<" ">>, <<BadByte>>}

RECURSIVE LastTexts(_)
LastTexts(n) ==
    IF n = 0 THEN {<<>>}
    ELSE LET shorter == LastTexts(n - 1)
         IN  shorter \cup {t \o f : t \in shorter, f \in LastFragments}

LastPads == {0, BooleanIndex}
LastFiles ==
    {[p \in {ModRs} |-> <<>>]}
      \cup {[p \in {CodegenRs} |-> Repeat(<<NL>>, n) \o t] : n \in LastPads, t \in LastTexts(MaxTail)}

InitLast == InitFs(LastFiles)

NextLast ==
    \/ Start("fix_last_errors")
    \/ FLE_Missing \/ FLE_Backup \/ FLE_BackupUndecodable \/ FLE_Read \/ FLE_Undecodable
    \/ FLE_IndexError \/ FLE_Fix \/ FLE_Write

SpecLast == InitLast /\ [][NextLast]_vars

(* Two processes, each running fix_impl_brackets or fix_all_files, on the *)
(* same files                                                             *)
ParFragments == {<<"{">>, <<"}">>, <<NL>>, <<ImplHdr>>, Load3}

RECURSIVE ParTexts(_)
ParTexts(n) ==
    IF n = 0 THEN {<<>>}
    ELSE LET shorter == ParTexts(n - 1)
         IN  shorter \cup {t \o f : t \in shorter, f \in ParFragments}

InitPar == InitFs({[p \in {ModRs, CodegenRs} |-> IF p = ModRs THEN t ELSE <<>>] : t \in ParTexts(MaxTail)})

NextPar ==
    \/ \E s \in {"fix_impl_brackets", "fix_all_files"} : Start(s)
    \/ FIB_Backup \/ FIB_Read \/ FIB_Append \/ FIB_Strip \/ FIB_Indent \/ FIB_Manual
    \/ FAF_Backup \/ FAF_KeepBackup \/ FAF_Read \/ FAF_Write
    \/ Switch

SpecPar == InitPar /\ [][NextPar]_vars

(* Runs of fix_all_codegen_errors; the files are long enough for some of  *)
(* the line numbers of its fixes, or shorter                              *)
BoolEan == wasm_codegen_fixes[1].old_content
FaceFragments == {<<"}">>, <<NL>>, codegen_fixes[1].old_content, BoolEan}

RECURSIVE FaceTexts(_)
FaceTexts(n) ==
    IF n = 0 THEN {<<>>}
    ELSE LET shorter == FaceTexts(n - 1)
         IN  shorter \cup {t \o f : t \in shorter, f \in FaceFragments}

\* empty lines up to the line of a fix
FacePads ==
    [p \in {CodegenRs, WasmCodegenRs, LoggerRs} |->
        CASE p = CodegenRs -> {0, codegen_fixes[1].line_num, codegen_fixes[3].line_num}
          [] p = WasmCodegenRs -> {wasm_codegen_fixes[1].line_num}
          [] p = LoggerRs -> {0, logger_fixes[1].line_num}]

\* the three files, holding at most MaxTail fragments together after their
\* empty lines; wasm/codegen.rs may be missing
FacePadded(p, n) == {Repeat(<<NL>>, k) \o t : k \in FacePads[p], t \in FaceTexts(n)}
FaceFiles ==
    LET full == UNION {{[p \in {CodegenRs, WasmCodegenRs, LoggerRs} |->
                           IF p = CodegenRs THEN c ELSE IF p = WasmCodegenRs THEN w ELSE l] :
                          c \in FacePadded(CodegenRs, ijk[1]),
                          w \in FacePadded(WasmCodegenRs, ijk[2]),
                          l \in FacePadded(LoggerRs, ijk[3])} :
                       ijk \in {x \in (0..MaxTail) \X (0..MaxTail) \X (0..MaxTail) :
                                  x[1] + x[2] + x[3] <= MaxTail}}
    IN  full \cup {[p \in {CodegenRs, LoggerRs} |-> f[p]] :
                     f \in {g \in full : g[WasmCodegenRs] = Repeat(<<NL>>, wasm_codegen_fixes[1].line_num)}}

InitFace == InitFs(FaceFiles)

NextFace ==
    \/ Start("fix_all_codegen_errors")
    \/ FACE_Call \/ FACE_End \/ FACE_Missing \/ FACE_Backup \/ FACE_Read \/ FACE_Write

SpecFace == InitFace /\ [][NextFace]_vars

(* Runs of fix_optimization_trait; optimization.rs holds impl blocks with *)
(* and without methods, or is missing                                     *)
NameMethod == <<NL>> \o Indent(4) \o <<"fn name", "(", "&self", ")", " -> &str ", "{", " ", "\"", "pass", "\"", " ", "}">>
ExecuteStub == <<NL>> \o Indent(4) \o <<"fn execute", "(", "&self", ")", " ", "{", "}">>
OptFragments ==
    {ImplFor("ConstantFolding"), ImplFor("ConstantFolding") \o NameMethod,
     ImplFor("LoopOptimization"), ExecuteStub, <<NL, "}">>}

RECURSIVE OptTexts(_)
OptTexts(n) ==
    IF n = 0 THEN {<<>>}
    ELSE LET shorter == OptTexts(n - 1)
         IN  shorter \cup {t \o f : t \in shorter, f \in OptFragments}

InitOpt == InitFs({[p \in {OptimizationRs} |-> t] : t \in OptTexts(MaxFrags)}
                    \cup {[p \in {ModRs} |-> <<>>]})

NextOpt ==
    \/ Start("fix_optimization_trait")
    \/ FOT_Backup \/ FOT_NoBackup \/ FOT_Read \/ FOT_NotFound \/ FOT_Impl \/ FOT_Write \/ FOT_Same

SpecOpt == InitOpt /\ [][NextOpt]_vars

(* Runs of the three scripts that rewrite build_struct_gep calls, on a     *)
(* mod.rs that holds calls of four, three and two arguments                *)
Gep3 == <<SB, "build_struct_gep", "(", "ptr", ",", " ", "0", ",", " ", "name", ")">>
StructGepFragments == {Gep4, Gep3, Gep2, Load3, <<NL>>, struct_gep_error1}

RECURSIVE StructGepTexts(_)
StructGepTexts(n) ==
    IF n = 0 THEN {<<>>}
    ELSE LET shorter == StructGepTexts(n - 1)
         IN  shorter \cup {t \o f : t \in shorter, f \in StructGepFragments}

InitStructGep ==
    InitFs({[p \in {ModRs, CodegenRs} |-> IF p = ModRs THEN t ELSE <<>>] : t \in StructGepTexts(MaxCalls)})

NextStructGep ==
    \/ \E s \in {"fix_inkwell", "fix_struct_gep", "fix_all_files"} : Start(s)
    \/ FIK_Backup \/ FIK_Read \/ FIK_Write
    \/ FSG_Backup \/ FSG_Read \/ FSG_Write
    \/ FAF_Backup \/ FAF_KeepBackup \/ FAF_Read \/ FAF_Write

SpecStructGep == InitStructGep /\ [][NextStructGep]_vars

(* Runs of the four scripts that write their backup only when there is    *)
(* none: fix_all_files, fix_backend, fix_complete and fix_inkwell2         *)
Gep4Spaced ==
    <<"build_struct_gep", " ", "(", " ", "ty", " ", ",", " ", "ptr", ",", " ", "0", ",", " ",
      "name", ")">>
FormatLoad == <<"build_load", "(", "&format!", "(", "\"", "x", "\"", ")", ")">>
QuotedLoad == <<"build_load", "(", "\"", "x", "\"", ")">>
OnceFragments == {Gep4, Gep4Spaced, Load3, QuotedLoad, FormatLoad, <<NL>>, <<"}">>}

RECURSIVE OnceTexts(_)
OnceTexts(n) ==
    IF n = 0 THEN {<<>>}
    ELSE LET shorter == OnceTexts(n - 1)
         IN  shorter \cup {t \o f : t \in shorter, f \in OnceFragments}

InitOnce ==
    InitFs({[p \in {ModRs, CodegenRs} |-> IF p = ModRs THEN t ELSE c] :
               t \in OnceTexts(MaxCalls), c \in {<<>>, Load3 \o <<NL>> \o FormatLoad}})

NextOnce ==
    \/ \E s \in {"fix_all_files", "fix_backend", "fix_complete", "fix_inkwell2"} : Start(s)
    \/ FAF_Backup \/ FAF_KeepBackup \/ FAF_Read \/ FAF_Write
    \/ FBE_Backup \/ FBE_KeepBackup \/ FBE_Read \/ FBE_Write
    \/ FCP_Backup \/ FCP_KeepBackup \/ FCP_Read \/ FCP_Write
    \/ FI2_Backup \/ FI2_KeepBackup \/ FI2_Read \/ FI2_Fix \/ FI2_Write

SpecOnce == InitOnce /\ [][NextOnce]_vars

(* Runs of fix_mod_rs_syntax on files with indented closing braces *)
ElseLine == Indented \o <<" ", "else", " ", "{", NL>>
ValueLoad == <<LetValue, SB, "build_load", "(", "ptr", ")", ";">>
FromIntType ==
    <<"AnyTypeEnum::from", "(", "BasicTypeEnum::IntType", "(", "t", ")", " ", "=>", " ", "a", ")">>
ModSyntaxFragments ==
    {Indented, ElseLine, <<"{">>, <<"}">>, <<NL>>, ValueLoad, Gep4, FromIntType, match_expr_error}

RECURSIVE ModSyntaxTexts(_)
ModSyntaxTexts(n) ==
    IF n = 0 THEN {<<>>}
    ELSE LET shorter == ModSyntaxTexts(n - 1)
         IN  shorter \cup {t \o f : t \in shorter, f \in ModSyntaxFragments}

InitModSyntax == InitFs({[p \in {ModRs} |-> t] : t \in ModSyntaxTexts(MaxFrags)})

NextModSyntax ==
    \/ Start("fix_mod_rs_syntax")
    \/ FMS_Backup \/ FMS_Read \/ FMS_Indent \/ FMS_Write

SpecModSyntax == InitModSyntax /\ [][NextModSyntax]_vars

(* Runs of fix_missing_brackets_modeule on files of 2167 lines or more: *)
(* 2166 or 2167 empty lines, then a tail                                *)
ModeuleTexts ==
    {t \in {Repeat(<<NL>>, n) \o tail : n \in {KeepLines - 1, KeepLines}, tail \in TextsOf(MaxTail)} :
        Len(ReadLines(t)) >= KeepLines}

InitModeule == InitFs({[p \in {ModRs} |-> t] : t \in ModeuleTexts})

NextModeule ==
    \/ Start("fix_missing_brackets_modeule")
    \/ FMM_Backup \/ FMM_Read \/ FMM_Write

SpecModeule == InitModeule /\ [][NextModeule]_vars

(* Runs of fix_type_specialization *)
TypeSpecFragments ==
    {OldForAll, NewForAll, ImplEngine, <<NL>>, <<"}">>,
     ForAllComment \o <<NL>> \o ForAllOpen \o <<NL>> \o ForAllVariables \o <<NL>>}

RECURSIVE TypeSpecTexts(_)
TypeSpecTexts(n) ==
    IF n = 0 THEN {<<>>}
    ELSE LET shorter == TypeSpecTexts(n - 1)
         IN  shorter \cup {t \o f : t \in shorter, f \in TypeSpecFragments}

InitTypeSpec == InitFs({[p \in {TypeSpecRs} |-> t] : t \in TypeSpecTexts(MaxFrags)})

NextTypeSpec ==
    \/ Start("fix_type_specialization")
    \/ FTS_Read \/ FTS_Write

SpecTypeSpec == InitTypeSpec /\ [][NextTypeSpec]_vars

----------------------------------------------------------------------------
(* Notions the properties are stated with *)

Target == fs[ModRs]            \* the target as it is now
Loaded == fs0[ModRs]           \* the target as it was when the run started
AtEnd(s) == script = s /\ pc = "done"

\* the report of check_brackets' analysis of a text
Report(text) == Analyze(ReadLines(text))
Excess(ps) == SelectSeq(ps, LAMBDA p : p.kind = "excess")
UnmatchedOpens(text) == Len(Report(text).stack)
UnmatchedCloses(text) == Len(Excess(Report(text).problems))
Balanced(text) == UnmatchedOpens(text) = 0 /\ UnmatchedCloses(text) = 0

\* Matching stated on positions, without a stack: net(i, j) is the number of
\* opening minus the number of closing braces among the characters i..j.
Net(text, i, j) ==
    Cardinality({k \in i..j : text[k] = "{"}) - Cardinality({k \in i..j : text[k] = "}"})
\* a closer is unmatched when no stretch of text that ends just before it has an opener to spare
UnmatchedCloserAt(text) ==
    {j \in 1..Len(text) : text[j] = "}" /\ \A i \in 1..j : Net(text, i, j - 1) <= 0}
\* an opener is unmatched when every stretch of text that starts at it has an opener to spare
UnmatchedOpenerAt(text) ==
    {i \in 1..Len(text) : text[i] = "{" /\ \A j \in i..Len(text) : Net(text, i, j) >= 1}

LineOf(text, i) == 1 + Cardinality({k \in 1..(i - 1) : text[k] = NL})
ColOf(text, i) == i - Max({0} \cup {k \in 1..(i - 1) : text[k] = NL})

RECURSIVE Sorted(_)
Sorted(S) == IF S = {} THEN <<>> ELSE <<Min(S)>> \o Sorted(S \ {Min(S)})
\* the positions of S, in text order, as pairs of line and column
Places(text, S) ==
    LET ps == Sorted(S) IN [k \in 1..Len(ps) |-> <<LineOf(text, ps[k]), ColOf(text, ps[k])>>]

----------------------------------------------------------------------------
(* C1.  At the end of a run the target is either what the run loaded or    *)
(* free of unmatched braces.                                               *)
C1_UnchangedOrBalanced ==
    pc = "done" => (Target = Loaded \/ Balanced(Target))

(* C5.  The analysis matches braces last-in first-out: after the scan the  *)
(* stack holds exactly the openers no closer matches, oldest first, and    *)
(* the excess closers reported are exactly the closers no opener matches,  *)
(* in text order.                                                          *)
C5_LifoMatching ==
    (script = "check_brackets" /\ pc \in {"cb_report", "done"}) =>
        /\ stack = Places(Target, UnmatchedOpenerAt(Target))
        /\ [k \in 1..Len(Excess(problems)) |->
                <<Excess(problems)[k].line, Excess(problems)[k].col>>]
             = Places(Target, UnmatchedCloserAt(Target))
        /\ SubSeq(problems, Len(problems) - Len(stack) + 1, Len(problems)) = Unclosed(stack)

\* a scan that found both an opener and a closer unmatched, and matched some pair
C5_Witness ==
    /\ script = "check_brackets" /\ pc = "cb_report"
    /\ stack # <<>> /\ Excess(problems) # <<>>
    /\ Count("}", Target) > Len(Excess(problems))

(* C6.  Unmatched openers minus unmatched closers, as reported by the      *)
(* analysis, is the number of opening minus the number of closing braces.  *)
C6_BalanceInvariant ==
    (script = "check_brackets" /\ pc \in {"cb_report", "done"}) =>
        Len(stack) - Len(Excess(problems)) = Count("{", Target) - Count("}", Target)

C6_Witness ==
    /\ script = "check_brackets" /\ pc = "cb_report"
    /\ Len(Excess(problems)) >= 2 /\ Len(stack) = 1

(* C8.  Append repair: when the loaded text has n >= 1 unmatched openers   *)
(* and no unmatched closer, fix_impl_brackets leaves the loaded text in    *)
(* place, adds after it exactly n closing braces (each on a new line) and  *)
(* the analysis of the result reports no unmatched brace.                  *)
C8_AppendRepair ==
    (AtEnd("fix_impl_brackets") /\ UnmatchedOpens(Loaded) >= 1 /\ UnmatchedCloses(Loaded) = 0) =>
        LET n == UnmatchedOpens(Loaded)
            added == SubSeq(Target, Len(Loaded) + 1, Len(Target))
        IN  /\ StartsWith(Target, Loaded)
            /\ Count("}", added) = n
            /\ \A k \in 1..Len(added) : added[k] \in {"}", NL}
            /\ Balanced(Target)

\* an append repair of a text with one block closed and one left open
C8_Witness ==
    /\ AtEnd("fix_impl_brackets")
    /\ UnmatchedOpens(Loaded) = 1 /\ UnmatchedCloses(Loaded) = 0
    /\ Count("}", Loaded) = 1
    /\ Target # Loaded

(* C7.  Braces inside a string literal are not delimiters: the report of   *)
(* the analysis, and the difference of counts that selects the repair, are *)
(* those of the text with the braces inside literals blanked.              *)
\* position i lies between an opening quote and the quote that closes it
InLiteral(text, i) ==
    /\ Cardinality({k \in 1..(i - 1) : text[k] = "\""}) % 2 = 1
    /\ \E k \in (i + 1)..Len(text) : text[k] = "\""
Blanked(text) ==
    [i \in 1..Len(text) |-> IF text[i] \in {"{", "}"} /\ InLiteral(text, i) THEN " " ELSE text[i]]
C7_LiteralBracesIgnored ==
    /\ (script = "check_brackets" /\ pc \in {"cb_report", "done"}) =>
          /\ stack = Report(Blanked(Target)).stack
          /\ Excess(problems) = Excess(Report(Blanked(Target)).problems)
    /\ AtEnd("fix_impl_brackets") =>
          Count("{", Loaded) - Count("}", Loaded)
            = Count("{", Blanked(Loaded)) - Count("}", Blanked(Loaded))

(* C9.  Strip repair: when the loaded text is a balanced text followed by  *)
(* n >= 1 excess closing braces and white space only, fix_impl_brackets    *)
(* removes exactly those n braces and the result is balanced.              *)
Braces(text) == SelectSeq(text, LAMBDA c : c \in {"{", "}"})
ExcessAtTail(text) ==
    \E k \in 0..Len(text) :
        /\ Balanced(SubSeq(text, 1, k))
        /\ \A i \in (k + 1)..Len(text) : text[i] = "}" \/ IsSpace(text[i])
        /\ \E i \in (k + 1)..Len(text) : text[i] = "}"
C9_StripRepair ==
    (AtEnd("fix_impl_brackets") /\ ExcessAtTail(Loaded)) =>
        LET n == Count("}", Loaded) - Count("{", Loaded)
        IN  /\ Braces(Target) = SubSeq(Braces(Loaded), 1, Len(Braces(Loaded)) - n)
            /\ Balanced(Target)

(* C10.  The strip repair deletes no closing brace that the analysis of    *)
(* the loaded text matched to an opening brace.                            *)
C10_StripOnlyUnmatched ==
    (AtEnd("fix_impl_brackets") /\ Count("}", Loaded) > Count("{", Loaded)) =>
        \A i \in 1..Len(SplitNL(Loaded)) :
            SplitNL(Target)[i] # SplitNL(Loaded)[i] =>
                \E k \in 1..Len(Report(Loaded).problems) :
                    /\ Report(Loaded).problems[k].kind = "excess"
                    /\ Report(Loaded).problems[k].line = i

(* C2.  In a run that writes the target, a backup the run writes is        *)
(* written before the target and holds the text the run loaded.            *)
BackupPaths == {ImplBak, BracketsBak, BracketsManualBak}
WritesTarget == \E k \in 1..Len(io) : io[k].path = ModRs
C2_BackupHoldsLoaded ==
    WritesTarget =>
        \A j \in 1..Len(io) :
            io[j].path \in BackupPaths =>
                /\ io[j].data = Loaded
                /\ \A k \in 1..(j - 1) : io[k].path # ModRs

(* C3.  No target is written in a run unless a backup holding that         *)
(* target's content was written earlier in the same run.                   *)
Targets == {ModRs, CodegenRs, TypeSpecRs}
C3_BackupBeforeWrite ==
    \A k \in 1..Len(io) :
        io[k].path \in Targets =>
            \E j \in 1..(k - 1) :
                io[j].path \notin Targets /\ io[j].data = fs0[io[k].path]

(* C4.  A backup, once written, keeps its content: no step of any run      *)
(* changes the content of a backup file that exists.                       *)
C4_BackupNeverOverwritten ==
    [][\A p \in DOMAIN fs \ Targets : fs'[p] = fs[p]]_vars

(* C11.  When the analysis of the loaded text shows both an unmatched      *)
(* opener and an unmatched closer, fix_impl_brackets ends its run with the *)
(* target unchanged.                                                       *)
Interleaved(text) == UnmatchedOpens(text) >= 1 /\ UnmatchedCloses(text) >= 1
C11_NoGuessOnInterleaved ==
    (AtEnd("fix_impl_brackets") /\ Interleaved(Loaded)) => Target = Loaded

(* C12.  A loaded text whose analysis reports no unmatched brace is left   *)
(* byte-identical by a run of the repair scripts.                          *)
C12_BalancedUntouched ==
    (pc = "done" /\ script \in {"fix_additional_gep", "fix_impl_brackets"}
       /\ Balanced(Loaded)) => Target = Loaded

(* C13.  fix_ast is idempotent: a run of fix_ast that follows a run of     *)
(* fix_ast leaves every file as it found it.                               *)
C13_FixAstIdempotent ==
    (script = "fix_ast" /\ pc = "done" /\ runs >= 2) =>
        \A p \in Globbed(fs) : fs[p] = fs0[p]

(* C15.  fix_ast and fix_inkwell2 apply their rules in list order, each    *)
(* once for a file, and each to the text the rules before it produced: in  *)
(* the loop the content is the text read with the first rule - 1 rules     *)
(* applied in order, and at the end of the run the file holds the text the *)
(* run found with all the rules applied in order.                          *)
RECURSIVE Applied(_, _)
Applied(text, k) ==
    IF k = 0 THEN text
    ELSE LET t == Applied(text, k - 1)
         IN  IF Len(t) >= 0 THEN ApplyRule(replacements[k], t) ELSE t
RECURSIVE Fixed(_, _)
Fixed(text, k) ==
    IF k = 0 THEN text
    ELSE LET t == Fixed(text, k - 1)
         IN  IF Len(t) >= 0 THEN Sub(fixes[k].pattern, fixes[k].replacement, t) ELSE t
C15_RulesInListOrder ==
    /\ (script = "fix_ast" /\ pc = "fa_rules") =>
          /\ rule \in 1..(Len(replacements) + 1)
          /\ content = Applied(original_content, rule - 1)
    /\ (script = "fix_ast" /\ pc = "done") =>
          \A p \in Globbed(fs0) : fs[p] = Applied(fs0[p], Len(replacements))
    /\ (script = "fix_inkwell2" /\ pc = "fi2_fixes") =>
          /\ rule \in 1..(Len(fixes) + 1)
          /\ content = Fixed(fs0[ModRs], rule - 1)
    /\ (script = "fix_inkwell2" /\ pc = "done") => Target = Fixed(Loaded, Len(fixes))

\* the fifth fix has been applied to a text the fourth changed, and it
\* would have matched the text as it was read
C15_Witness ==
    /\ script = "fix_inkwell2" /\ pc = "fi2_fixes" /\ rule = 6
    /\ Search(fixes[5].pattern, Loaded)
    /\ Fixed(Loaded, 4) # Fixed(Loaded, 3)
    /\ ~Search(fixes[5].pattern, Fixed(Loaded, 4))

(* C16.  In fix_ast and fix_syntax_errors a rule whose pattern does not    *)
(* occur in the current text leaves the text as it is and the loop goes on *)
(* to the next rule; a file in which no pattern occurs is not written, and *)
(* at the end of the run it is as the run found it.                        *)
NoRuleMatches(text) == \A k \in 1..Len(replacements) : ~Search(replacements[k].old, text)
NoSyntaxMatch(path, text) ==
    /\ ~Search(ErsectionPat, text)
    /\ IsIrModRs(path) => ~Contains(text, problematic_code)
Written(path) == \E k \in 1..Len(io) : io[k].path = path
Untouched(path) == fs[path] = fs0[path] /\ ~Written(path)
C16_NoMatchNoOp ==
    /\ [](/\ (script = "fix_ast" /\ pc = "done") =>
                \A path \in Globbed(fs0) : NoRuleMatches(fs0[path]) => Untouched(path)
          /\ (script = "fix_syntax_errors" /\ pc = "done") =>
                /\ \A path \in Globbed(fs0) :
                      NoSyntaxMatch(path, fs0[path]) => Untouched(path)
                /\ (ModRs \in DOMAIN fs0 /\ ~Search(ErsectionPat, Loaded)) =>
                      Target = Replace(Loaded, problematic_code, fixed_code))
    /\ [][(script = "fix_ast" /\ pc = "fa_rules" /\ rule <= Len(replacements)
             /\ ~Search(replacements[rule].old, content))
            => (content' = content /\ pc' = "fa_rules" /\ rule' = rule + 1)]_vars

\* a run of fix_syntax_errors that found no pattern in name_resolver.rs and,
\* in mod.rs, not the first pattern but the second
C16_Witness ==
    /\ script = "fix_syntax_errors" /\ pc = "done"
    /\ NameResolverRs \in DOMAIN fs0 /\ fs0[NameResolverRs] # <<>>
    /\ NoSyntaxMatch(NameResolverRs, fs0[NameResolverRs])
    /\ ~Search(ErsectionPat, Loaded) /\ Target # Loaded

(* C19.  Two different targets never share a backup: at the end of a run   *)
(* of fix_ast every file the run processed has a backup of its own, which  *)
(* holds the content the run found in that file.                           *)
C19_BackupPerTarget ==
    (script = "fix_ast" /\ pc = "done") =>
        /\ \A p, q \in Globbed(fs0) : p # q => AstBackupPath(p) # AstBackupPath(q)
        /\ \A p \in Globbed(fs0) : fs[AstBackupPath(p)] = fs0[p]

(* C17.  The final text is analysed again before the run ends: at the end  *)
(* of a run of fix_impl_brackets that wrote the target, the text whose     *)
(* braces the run counted last is the text it leaves in the target.        *)
C17_ReAnalysedBeforeEnd ==
    (AtEnd("fix_impl_brackets") /\ Written(ModRs)) => content = Target

(* C14.  Replacing the line range is idempotent: a second run of          *)
(* fix_ir_mod, on the file the first run produced, leaves the file as it  *)
(* was.                                                                   *)
C14_FixIrModIdempotent ==
    (AtEnd("fix_ir_mod") /\ runs >= 2) => Target = Loaded

\* the target as it is now and as it was when the run started, where the
\* target is codegen.rs; a missing file has no text
TextOf(f, p) == IF p \in DOMAIN f THEN <<f[p]>> ELSE <<>>

(* C20.  A failing run leaves the target untouched: whenever a run of     *)
(* fix_last_errors has not ended in success, codegen.rs is as it was when *)
(* the run started, so at the failure of a run (no file, a byte that      *)
(* cannot be read, fewer than 126 lines) the target is as before the run. *)
C20_FailedRunLeavesTarget ==
    (script = "fix_last_errors" /\ pc # "done") =>
        TextOf(fs, CodegenRs) = TextOf(fs0, CodegenRs)

C20_Witness ==
    /\ script = "fix_last_errors"
    /\ pc = "failed"
    /\ CodegenRs \in DOMAIN fs0
    /\ fs0[CodegenRs] # <<>>
    /\ Decodable(fs0[CodegenRs])
    /\ Len(lines) = BooleanIndex
    /\ fs[Final2Bak] = fs0[CodegenRs]
    /\ fs[CodegenRs] = fs0[CodegenRs]


\* the text the running script read from its target
ReadText == IF script = "fix_all_files" THEN WriteLines(lines) ELSE content

(* C18.  No write is computed from stale content: whenever a step of a    *)
(* run of fix_impl_brackets or fix_all_files changes the text of the      *)
(* run's target, the text the run read is the text the target held just   *)
(* before the step, under any interleaving of two runs.                   *)
C18_NoStaleWrite ==
    [][(/\ script \in {"fix_impl_brackets", "fix_all_files"}
        /\ target_file \in DOMAIN fs
        /\ fs'[target_file] # fs[target_file])
          => ReadText = fs[target_file]]_vars

\* what a run wrote to mod.rs, in order
TargetWrites == SelectSeq(io, LAMBDA e : e.path = ModRs)

\* the one branch the counts of a text select, and what it writes
Branch(text) ==
    IF Count("{", text) > Count("}", text) THEN "append"
    ELSE IF Count("}", text) > Count("{", text) THEN "strip"
    ELSE IF ImplMatch(text) THEN "indent" ELSE "none"
OneRepair(text) ==
    CASE Branch(text) = "append" -> AppendClosers(text, Count("{", text) - Count("}", text))
      [] Branch(text) = "strip" -> StripClosers(text, Count("}", text) - Count("{", text))
      [] Branch(text) = "indent" -> FixIndent(text)
      [] OTHER -> text

(* C21.  A run of fix_impl_brackets executes at most one repair: it       *)
(* writes mod.rs at most once, nothing before its end, and at its end     *)
(* what it wrote is the result of the one branch the two counts select    *)
(* (append, strip, or the branch for equal counts), never of two.         *)
C21_OneRepairPerRun ==
    script = "fix_impl_brackets" =>
        /\ Len(TargetWrites) <= 1
        /\ pc # "done" => TargetWrites = <<>>
        /\ pc = "done" =>
              /\ Target = OneRepair(Loaded)
              /\ TargetWrites = IF Branch(Loaded) = "none" THEN <<>>
                                ELSE <<[path |-> ModRs, data |-> OneRepair(Loaded)]>>

C21_Witness ==
    /\ AtEnd("fix_impl_brackets")
    /\ Branch(Loaded) = "append"
    /\ ImplMatch(Loaded)
    /\ FixIndent(Loaded) # Loaded
    /\ Len(TargetWrites) = 1
    /\ Target = AppendClosers(Loaded, 1)

(* C22.  fix_file applies every listed fix whose index is within the     *)
(* file: after a run of fix_all_codegen_errors on a logger.rs of more     *)
(* than 200 lines, the line at index 200 is the line as it was with       *)
(* every "}" removed (the fix of old text "}" and empty new text).        *)
C22_EmptyNewTextRemoves ==
    (AtEnd("fix_all_codegen_errors") /\ Len(ReadLines(fs0[LoggerRs])) > 200) =>
        ReadLines(fs[LoggerRs])[201] = Replace(ReadLines(fs0[LoggerRs])[201], <<"}">>, <<>>)

\* the impl blocks of a text: the position of each start and of the brace
\* that closes the block it opens
ImplBlocks(text) ==
    {b \in (1..Len(text)) \X (1..Len(text)) :
        /\ \E k \in 1..Len(implementations) :
              b[1] \in Occurrences(text, ImplFor(implementations[k].class))
        /\ text[b[2]] = "}"
        /\ Net(text, b[1], b[2]) = 0
        /\ \A j \in b[1]..(b[2] - 1) : Net(text, b[1], j) # 0 \/ j < b[1] + 3}
Executes(text, b) == Cardinality({k \in b[1]..b[2] : text[k] = "fn execute"})

(* C23.  add_execute_method adds an execute method only to an impl that   *)
(* has none: after a run of fix_optimization_trait on a file in which no  *)
(* impl block holds more than one `fn execute`, no impl block holds more  *)
(* than one.                                                              *)
C23_NoSecondExecute ==
    (AtEnd("fix_optimization_trait") /\ OptimizationRs \in DOMAIN fs0
       /\ \A b \in ImplBlocks(fs0[OptimizationRs]) : Executes(fs0[OptimizationRs], b) <= 1)
      => \A b \in ImplBlocks(fs[OptimizationRs]) : Executes(fs[OptimizationRs], b) <= 1

\* the copies of mod.rs that the three scripts keep
GepBackups == {PreFix, GepBak, BakSafe(ModRs)}
\* an earlier run changed mod.rs: a copy taken before an earlier run differs
\* from the text the current run started with
RewrittenBefore == \E b \in GepBackups \cap DOMAIN fs0 : fs0[b] # fs0[ModRs]

(* C24.  The scripts agree on the final form of a build_struct_gep call:  *)
(* once a run of fix_inkwell, fix_struct_gep or fix_all_files has         *)
(* rewritten mod.rs, every later run of one of the three leaves mod.rs as *)
(* it found it.                                                           *)
C24_GepFixedPoint ==
    (pc = "done" /\ script \in {"fix_inkwell", "fix_struct_gep", "fix_all_files"}
       /\ RewrittenBefore)
      => Target = Loaded

(* C25.  The scripts that write their backup only when there is none       *)
(* (fix_all_files, fix_backend, fix_complete, fix_inkwell2): the backup    *)
(* holds, after any number of runs, the content the target had before the  *)
(* first run of the script.  In steps: a backup that exists is never       *)
(* written again; a backup is created by its script, in a run that found   *)
(* none, as a copy of the target as it was when that run started; and      *)
(* every run of the script that ends leaves a backup, so the run that      *)
(* creates it is the first.                                                *)
OnceBackups ==
    {[script |-> "fix_all_files", target |-> ModRs, backup |-> BakSafe(ModRs)],
     [script |-> "fix_all_files", target |-> CodegenRs, backup |-> BakSafe(CodegenRs)],
     [script |-> "fix_backend", target |-> CodegenRs, backup |-> BackendBak],
     [script |-> "fix_complete", target |-> ModRs, backup |-> CompleteBak],
     [script |-> "fix_inkwell2", target |-> ModRs, backup |-> Bak4]}
LongerIdentifiers ==
    {<<"TypeKind::", "Int", "ersection">>, <<"DeclarationKind::", "Function", "Decl">>}
C26_WholeIdentifierOnly ==
    (script = "fix_ast" /\ pc = "done") =>
        \A p \in Globbed(fs0) : \A id \in LongerIdentifiers :
            Cardinality(Occurrences(fs[p], id)) >= Cardinality(Occurrences(fs0[p], id))

(* C27.  The indentation fix of fix_mod_rs_syntax keeps the number of "{"  *)
(* and the number of "}": the text with the indented closing braces        *)
(* replaced holds as many of each as the text read.                        *)
C27_IndentFixKeepsBraceCounts ==
    (script = "fix_mod_rs_syntax" /\ pc \in {"fms_write", "done"}) =>
        /\ Count("{", content) = Count("{", WriteLines(lines))
        /\ Count("}", content) = Count("}", WriteLines(lines))

(* C28.  The repair of check_brackets adds, removes and reorders no brace, *)
(* and the analysis of the file it writes reports the unmatched "{" and    *)
(* the unmatched "}" that the analysis of the file read reported, each     *)
(* with its line and its column.                                           *)
Unmatched(ps) == SelectSeq(ps, LAMBDA q : q.kind \in {"excess", "unclosed"})
Repaired == script = "check_brackets" /\ pc = "done" /\ TargetWrites # <<>>
C29_MissingBracketsIdempotent ==
    AtEnd("fix_missing_brackets") =>
        /\ ProperlyClosed(Target)
        /\ ProperlyClosed(Loaded) => (Target = Loaded /\ TargetWrites = <<>>)
\* the end of a run that follows a run which appended the closing braces:
\* the backup of the run holds the text with the braces, the target too
C29_Witness ==
    /\ AtEnd("fix_missing_brackets") /\ runs >= 2
    /\ EndsWith(Loaded, ClosingBrackets)
    /\ ~ProperlyClosed(SubSeq(Loaded, 1, Len(Loaded) - Len(ClosingBrackets)))
    /\ fs[BracketsBak] = Loaded
    /\ Target = Loaded

(* C30.  fix_missing_brackets_modeule is idempotent on a target that had   *)
(* 2167 lines or more before the first run: a second run leaves the file   *)
(* as the first run wrote it.                                              *)
C30_ModeuleIdempotent ==
    (AtEnd("fix_missing_brackets_modeule") /\ runs >= 2) => Target = Loaded

====
